---- MODULE Spec2Model ----
(***************************************************************************)
(* A model of dunsMatchAPI: the Authenticator's token cache (auth.py), the *)
(* Matcher's retried match call (matcher.py), the Data Processor's batch   *)
(* loop (data_processor.py), the legacy DIR_API client and end-to-end      *)
(* routine (client.py) and the Database Manager's population routine       *)
(* (database.py, models.py).                                               *)
(*                                                                         *)
(* Optional values (Python's None) are sequences of length <= 1:          *)
(* None is << >> and a present value x is << x >>.                         *)
(***************************************************************************)
EXTENDS Integers, Sequences, FiniteSets, TLC

VARIABLES
    auth,           \* Authenticator: [access_token, token_expiry]
    dir,            \* legacy DIR_API client: [access_token, token_expiry]
    now,            \* the wall clock, datetime.now(), in seconds
    tokenRequests,  \* POSTs to {api_url}/v3/token issued so far
    calls,          \* token-freshness calls made so far (SpecAuth)
    clockSteps,     \* clock advances made so far
    lastCall,       \* what the last token-freshness call did
    mode,           \* the batch routine that runs: request_matches or the legacy one
    source,         \* the table handed to the loader, until it has been loaded
    loadError,      \* what loading the table, or setting the routine up, raised
    instance,       \* the DIR_API whose request method was called
    client,         \* the DIR_API through which the running request method
                    \* sends its match calls, once it has one
    table,          \* the loaded input table: a sequence of rows of strings
    pos,            \* rows of the table finished so far
    pc,             \* "load": about to load the table; "failed": loading raised;
                    \* "row": about to attempt the match of row pos+1;
                    \* "sleep": in the retry backoff; "done": the routine returned
    attempt,        \* attempt number of the running match_company call
    callPosts,      \* token requests issued by the earlier attempts of that call
    lastAttempt,    \* what the last attempt did
    getRequests,    \* GETs to {api_url}/v1/match/cleanseMatch issued so far
    saved_files,    \* request_matches: the paths returned, in order
    snapshots,      \* the files written: <<path, content>> in write order
    results,        \* match_companies_from_excel: the output rows, in order
    log,            \* per finished row: how its match call ended
    db,             \* the database: the rows of its tables
    pending,        \* the session's objects added and not yet flushed
    dbpc,           \* "idle": no population runs; "files": inside the file loop
    processed_count,\* populate_from_json_files: its local counter
    callNo,         \* population calls begun so far
    filesDone,      \* files handled so far, over all calls
    fileLog,        \* per file of the running or last call: how it ended, whether
                    \* it was an error snapshot, the candidates it was read to hold
    lastPopulate,   \* how the last population call ended, and its return value
    observed,       \* the calls whose rows a concurrent reader has seen
    committedCalls, \* the calls whose end-of-batch commit succeeded
    request,        \* the match_company call at hand: who is called, with what
    lastGet,        \* the provider's answer to the last match GET, if one was issued
    outcome,        \* how the last finished match_company call ended (before:
                    \* what the call before it raised)
    callsMade       \* match_company calls begun so far (SpecCall)

authVars == <<auth, dir, now, tokenRequests, calls, clockSteps, lastCall>>
procVars == <<mode, source, loadError, instance, client, table, pos, pc, attempt,
              callPosts,
              lastAttempt, getRequests,
              saved_files, snapshots, results, log>>

dbVars == <<db, pending, dbpc, processed_count, callNo, filesDone, fileLog,
            lastPopulate, observed, committedCalls>>

callVars == <<request, lastGet, outcome, callsMade>>

vars == <<authVars, procVars, dbVars, callVars>>

-----------------------------------------------------------------------------
(* Bounds of the model *)

MaxCalls == 3       \* token-freshness calls explored by SpecAuth
MaxClock == 2       \* clock advances explored
MaxRows == 2        \* rows of an input table
MaxCandidates == 2  \* candidates in one provider response
MaxMatches == 2     \* candidates in one snapshot file
MaxFiles == 3       \* files populated over all calls
MaxPopulateCalls == 2  \* calls of populate_from_json_files
MaxMatchCalls == 2  \* direct calls of match_company explored by SpecCall

-----------------------------------------------------------------------------
(* Optional values and exceptions *)

None == << >>
Some(x) == << x >>

NoExc == [type |-> "none", msg |-> ""]
Exc(t, m) == [type |-> t, msg |-> m]

\* The classes of requests.exceptions.RequestException that the model raises:
\* ConnectionError (standing for every transport-level failure, timeouts
\* included) and HTTPError (raise_for_status) are subclasses of it.
IsRequestException(e) == e.type \in {"ConnectionError", "HTTPError"}

-----------------------------------------------------------------------------
(* Authenticator (auth.py) and the legacy client's copy of it (client.py) *)

DefaultExpiresIn == 86400

Tokens == {"tokA", "tokB"}

\* What the provider's token endpoint may answer.  kind "transport" is a
\* connection error or timeout (raised as ConnectionError); otherwise an HTTP
\* response with a status and, on 200, a JSON body with optional access_token
\* and expiresIn.
AuthResponsesOf(tokens, expiries) ==
    [kind : {"transport"}, status : {0},
     access_token : {None}, expiresIn : {None}]
    \cup [kind : {"http"}, status : {401, 500},
          access_token : {None}, expiresIn : {None}]
    \cup [kind : {"http"}, status : {200},
          access_token : {None} \cup {Some(t) : t \in tokens},
          expiresIn : expiries]

\* The answers explored for the token cache; among them a 300 (Multiple
\* Choices, which requests hands back as it is when no Location header comes
\* with it) whose body is the JSON object {}.
AuthResponses ==
    AuthResponsesOf(Tokens, {None, Some(5)})
    \cup {[kind |-> "http", status |-> 300, access_token |-> None, expiresIn |-> None]}

\* Response.raise_for_status(): HTTPError for 4xx and 5xx.
RaisesForStatus(status) == status >= 400 /\ status < 600

NewAuth == [access_token |-> None, token_expiry |-> None]

\* dict.get(key, default)
GetOr(opt, default) == IF opt = None THEN default ELSE opt[1]

\* Authenticator.authenticate(): the POST, raise_for_status, then the two
\* assignments.  Nothing is caught: a transport error or HTTPError leaves
\* with the fields untouched.
Authenticate(a, t, resp) ==
    IF resp.kind # "http"
    THEN [auth |-> a, exc |-> Exc("ConnectionError", "token request failed")]
    ELSE IF RaisesForStatus(resp.status)
    THEN [auth |-> a, exc |-> Exc("HTTPError", "token request rejected")]
    ELSE [auth |-> [access_token |-> resp.access_token,
                    token_expiry |-> Some(t + GetOr(resp.expiresIn, DefaultExpiresIn))],
          exc |-> NoExc]

\* The freshness test of get_valid_token / _ensure_authenticated.
NeedsAuth_Strict(a, t) ==
    \/ a.access_token = None
    \/ a.token_expiry = None
    \/ t > a.token_expiry[1]

NeedsAuth(a, t) ==
    \/ a.access_token = None
    \/ a.token_expiry = None
    \/ t >= a.token_expiry[1]

\* Authenticator.get_valid_token(): [auth, exc, posts, token]
GetValidToken(a, t, resp) ==
    IF NeedsAuth(a, t)
    THEN LET r == Authenticate(a, t, resp)
         IN [auth |-> r.auth, exc |-> r.exc, posts |-> 1,
             token |-> IF r.exc = NoExc THEN r.auth.access_token ELSE None]
    ELSE [auth |-> a, exc |-> NoExc, posts |-> 0, token |-> a.access_token]

\* Authenticator.get_auth_headers(): the Authorization header carries the
\* token get_valid_token returned.
GetAuthHeaders(a, t, resp) ==
    LET r == GetValidToken(a, t, resp)
    IN [auth |-> r.auth, exc |-> r.exc, posts |-> r.posts,
        headers |-> [Authorization |-> r.token, Accept |-> "application/json"]]

\* DIR_API.authenticate(): the same exchange, but every RequestException is
\* caught and re-raised as a plain Exception("Authentication failed: ...").
DirAuthenticate(a, t, resp) ==
    LET r == Authenticate(a, t, resp)
    IN IF IsRequestException(r.exc)
       THEN [auth |-> a, exc |-> Exc("Exception", "Authentication failed")]
       ELSE r

\* DIR_API._ensure_authenticated(): [auth, exc, posts]
EnsureAuthenticated(a, t, resp) ==
    IF NeedsAuth(a, t)
    THEN LET r == DirAuthenticate(a, t, resp)
         IN [auth |-> r.auth, exc |-> r.exc, posts |-> 1]
    ELSE [auth |-> a, exc |-> NoExc, posts |-> 0]

-----------------------------------------------------------------------------
(* Value-normalization utilities (utils.py) *)

\* A cell of tabular input: a missing/NaN value, or a string (a sequence of
\* one-character strings).
NaN == [na |-> TRUE, text |-> << >>]
Str(s) == [na |-> FALSE, text |-> s]

\* _clean_value(value): "" for NaN/None, else str(value).
CleanValue(v) == IF v.na THEN << >> ELSE v.text

LowerLetters == <<"a", "b", "c", "d", "e", "f", "g", "h", "i", "j", "k", "l", "m",
                  "n", "o", "p", "q", "r", "s", "t", "u", "v", "w", "x", "y", "z">>
UpperLetters == <<"A", "B", "C", "D", "E", "F", "G", "H", "I", "J", "K", "L", "M",
                  "N", "O", "P", "Q", "R", "S", "T", "U", "V", "W", "X", "Y", "Z">>

\* str.upper() on a string of ASCII characters
Upper(str) ==
    [i \in 1..Len(str) |->
        IF \E k \in 1..26 : LowerLetters[k] = str[i]
        THEN UpperLetters[CHOOSE k \in 1..26 : LowerLetters[k] = str[i]]
        ELSE str[i]]

\* The query parameters of the match GET, built from the three arguments of
\* match_company: the address only when it is not empty, the language by the
\* country.
MatchParams(company_name, country, address) ==
    [name |-> CleanValue(company_name),
     countryISOAlpha2Code |-> CleanValue(country),
     streetAddressLine1 |-> IF CleanValue(address) # << >>
                            THEN Some(CleanValue(address)) ELSE None,
     inLanguage |-> IF Upper(CleanValue(country)) = <<"C", "N">>
                    THEN "zh-hans-CN" ELSE "auto"]

\* A JSON value of a list that the code passes through unexamined: a string,
\* or something else (an object, a list).
JsonString(text) == [isString |-> TRUE, text |-> text]
JsonObject(text) == [isString |-> FALSE, text |-> text]

\* A match candidate of the provider's JSON, flattened to its leaves: every
\* leaf is optional (an absent intermediate object makes its leaves absent).
CandA ==
    [duns |-> Some("111111111"), primaryName |-> Some("Acme Ltd"),
     websiteAddress |-> Some(<<JsonString("acme.example")>>),
     tradeStyleNames |-> Some(<<[name |-> "ACME"]>>),
     telephone |-> Some(<<[telephoneNumber |-> "555", isUnreachableIndicator |-> FALSE]>>),
     osDescription |-> Some("Active"), osDnbCode |-> Some(7),
     isMailUndeliverable |-> Some(FALSE),
     countryCode |-> Some("US"), countryName |-> Some("United States"),
     regionName |-> Some("California"), regionAbbr |-> Some("CA"),
     postalCode |-> Some("94000"), postalCodeExtension |-> Some("1234"),
     line1 |-> Some("1 Main St"), line2 |-> Some("Suite 2"),
     confidenceCode |-> Some(9), matchGrade |-> Some("AAZZ"),
     matchGradeComponentsCount |-> Some(1),
     matchGradeComponents |-> Some(<<[componentType |-> Some("Name"),
                                      componentRating |-> Some("A")]>>),
     matchDataProfile |-> Some("0099"), nameMatchScore |-> Some(95)]

CandB ==
    [duns |-> Some("222222222"), primaryName |-> Some("Bolt GmbH"),
     websiteAddress |-> None, tradeStyleNames |-> None, telephone |-> None,
     osDescription |-> None, osDnbCode |-> None, isMailUndeliverable |-> None,
     countryCode |-> Some("DE"), countryName |-> None,
     regionName |-> None, regionAbbr |-> None,
     postalCode |-> None, postalCodeExtension |-> None,
     line1 |-> None, line2 |-> None,
     confidenceCode |-> None, matchGrade |-> None,
     matchGradeComponentsCount |-> None,
     matchGradeComponents |-> Some(<<[componentType |-> None,
                                      componentRating |-> Some("B")]>>),
     matchDataProfile |-> None, nameMatchScore |-> None]

\* CandA again, as seen later under another name and status.
CandA2 ==
    [CandA EXCEPT !.primaryName = Some("Acme Holdings"),
                  !.osDescription = Some("Out of business"),
                  !.websiteAddress = None, !.tradeStyleNames = None,
                  !.telephone = None]

\* A candidate whose websiteAddress entries are objects, not strings.
CandC ==
    [CandB EXCEPT !.websiteAddress = Some(<<JsonObject("bolt.example")>>)]

Candidates == {CandA, CandB}

\* _extract_comprehensive_info(candidate)
ExtractComprehensiveInfo(c) ==
    [duns |-> GetOr(c.duns, ""),
     primary_name |-> GetOr(c.primaryName, ""),
     website_address |-> GetOr(c.websiteAddress, << >>),
     trade_style_names |-> GetOr(c.tradeStyleNames, << >>),
     telephone |-> GetOr(c.telephone, << >>),
     operating_status |-> [description |-> GetOr(c.osDescription, ""),
                           dnb_code |-> IF c.osDnbCode = None THEN Some("") ELSE c.osDnbCode],
     is_mail_undeliverable |-> c.isMailUndeliverable,
     address |-> [country |-> [iso_alpha2_code |-> GetOr(c.countryCode, ""),
                               name |-> GetOr(c.countryName, "")],
                  region |-> [name |-> GetOr(c.regionName, ""),
                              abbreviated_name |-> GetOr(c.regionAbbr, "")],
                  postal_code |-> GetOr(c.postalCode, ""),
                  postal_code_extension |-> GetOr(c.postalCodeExtension, ""),
                  street |-> [line1 |-> GetOr(c.line1, ""),
                              line2 |-> GetOr(c.line2, "")]],
     match_quality |-> [confidence_code |-> GetOr(c.confidenceCode, 0),
                        match_grade |-> GetOr(c.matchGrade, ""),
                        match_grade_components_count |->
                            GetOr(c.matchGradeComponentsCount, 0)],
     match_grade_components |->
         LET comps == GetOr(c.matchGradeComponents, << >>)
         IN [i \in 1..Len(comps) |->
                [component_type |-> GetOr(comps[i].componentType, ""),
                 component_rating |-> GetOr(comps[i].componentRating, "")]],
     match_data_profile |-> GetOr(c.matchDataProfile, ""),
     name_match_score |-> c.nameMatchScore]

-----------------------------------------------------------------------------
(* Matcher (matcher.py) *)

MaxAttempts == 3        \* stop_after_attempt(3)
WaitMultiplier == 1     \* wait_exponential(multiplier=1, min=4, max=10)
WaitMin == 4
WaitMax == 10

\* The sequences of up to n elements of S.
RECURSIVE SeqsUpTo(_, _)
SeqsUpTo(S, n) ==
    IF n = 0 THEN {<< >>}
    ELSE LET shorter == SeqsUpTo(S, n - 1)
         IN shorter \cup {Append(q, x) : q \in {r \in shorter : Len(r) = n - 1}, x \in S}

\* Those that name no element twice.
DistinctSeqsUpTo(S, n) ==
    {q \in SeqsUpTo(S, n) : \A i, j \in 1..Len(q) : q[i] = q[j] => i = j}

\* What the provider's match endpoint may answer: a transport failure, or an
\* HTTP response.  A 200 body carries matchCandidates (absent: None); an
\* error body carries error.errorCode ("absent": no such key, "notjson": the
\* body is not JSON).  The 300 (Multiple Choices, which requests does not
\* follow without a Location header) is a response outside 2xx that
\* raise_for_status() lets pass (it raises for 400..599 only); its body is
\* the JSON object {}.
GetResponsesUpTo(n) ==
    [kind : {"transport"}, status : {0},
     matchCandidates : {None}, errorCode : {"absent"}]
    \cup [kind : {"http"}, status : {200},
          matchCandidates : {None} \cup {Some(q) : q \in DistinctSeqsUpTo(Candidates, n)},
          errorCode : {"absent"}]
    \cup [kind : {"http"}, status : {404},
          matchCandidates : {None}, errorCode : {"20505", "10001", "absent", "notjson"}]
    \cup [kind : {"http"}, status : {401},
          matchCandidates : {None}, errorCode : {"20505", "notjson"}]
    \cup [kind : {"http"}, status : {500},
          matchCandidates : {None}, errorCode : {"20505"}]
    \cup [kind : {"http"}, status : {300},
          matchCandidates : {None}, errorCode : {"absent"}]

\* The conversion loop of match_company: one record per candidate, appended
\* in the order of matchCandidates.
ConvertCandidates(cands) ==
    [i \in 1..Len(cands) |-> ExtractComprehensiveInfo(cands[i])]

\* The try block without the "no match found" reading of a 404.
ClassifyGet_No20505(resp) ==
    IF resp.kind # "http"
    THEN [exc |-> Exc("Exception", "Network error"), matches |-> << >>]
    ELSE IF ~RaisesForStatus(resp.status)
    THEN [exc |-> NoExc,
          matches |-> ConvertCandidates(GetOr(resp.matchCandidates, << >>))]
    ELSE IF resp.status = 401
    THEN [exc |-> Exc("Exception", "Authentication failed. Check your API credentials."),
          matches |-> << >>]
    ELSE [exc |-> Exc("Exception", "API request failed"), matches |-> << >>]

\* The try block reading error code 20505 in the body of any error status.
ClassifyGet_20505AnyStatus(resp) ==
    IF resp.kind # "http"
    THEN [exc |-> Exc("Exception", "Network error"), matches |-> << >>]
    ELSE IF ~RaisesForStatus(resp.status)
    THEN [exc |-> NoExc,
          matches |-> ConvertCandidates(GetOr(resp.matchCandidates, << >>))]
    ELSE IF resp.errorCode = "20505"
    THEN [exc |-> NoExc, matches |-> << >>]
    ELSE IF resp.status = 401
    THEN [exc |-> Exc("Exception", "Authentication failed. Check your API credentials."),
          matches |-> << >>]
    ELSE [exc |-> Exc("Exception", "API request failed"), matches |-> << >>]

\* The try block of match_company around session.get: [exc, matches].
\* Both except clauses raise a plain Exception, so no RequestException
\* raised by the GET leaves the function.
ClassifyGet(resp) ==
    IF resp.kind # "http"
    THEN [exc |-> Exc("Exception", "Network error"), matches |-> << >>]
    ELSE IF ~RaisesForStatus(resp.status)
    THEN [exc |-> NoExc,
          matches |-> ConvertCandidates(GetOr(resp.matchCandidates, << >>))]
    ELSE IF resp.status = 404 /\ resp.errorCode = "20505"
    THEN [exc |-> NoExc, matches |-> << >>]
    ELSE IF resp.status = 401
    THEN [exc |-> Exc("Exception", "Authentication failed. Check your API credentials."),
          matches |-> << >>]
    ELSE [exc |-> Exc("Exception", "API request failed"), matches |-> << >>]

\* The body with the headers built before the name is looked at.
MatchCompanyBody_AuthFirst(a, t, company_name, country, address, authResp, getResp) ==
    LET h == GetAuthHeaders(a, t, authResp)
    IN IF h.exc # NoExc
       THEN [auth |-> h.auth, exc |-> h.exc, matches |-> << >>,
             posts |-> h.posts, gets |-> 0]
       ELSE IF CleanValue(company_name) = << >>
       THEN [auth |-> h.auth, exc |-> Exc("ValueError", "Company name is required"),
             matches |-> << >>, posts |-> h.posts, gets |-> 0]
       ELSE LET g == ClassifyGet(getResp)
            IN [auth |-> h.auth, exc |-> g.exc, matches |-> g.matches,
                posts |-> h.posts, gets |-> 1]

\* The body dropping the cached token when the GET is answered 401.
MatchCompanyBody_Invalidate401(a, t, company_name, country, address, authResp, getResp) ==
    IF CleanValue(company_name) = << >>
    THEN [auth |-> a, exc |-> Exc("ValueError", "Company name is required"),
          matches |-> << >>, posts |-> 0, gets |-> 0]
    ELSE LET h == GetAuthHeaders(a, t, authResp)
         IN IF h.exc # NoExc
            THEN [auth |-> h.auth, exc |-> h.exc, matches |-> << >>,
                  posts |-> h.posts, gets |-> 0]
            ELSE LET g == ClassifyGet(getResp)
                 IN [auth |-> IF getResp.kind = "http" /\ getResp.status = 401
                              THEN NewAuth ELSE h.auth,
                     exc |-> g.exc, matches |-> g.matches,
                     posts |-> h.posts, gets |-> 1]

\* One execution of the body of Matcher.match_company:
\* [auth, exc, matches, posts, gets].  The headers are built outside the try
\* block, so what get_auth_headers raises leaves the body as it is.
MatchCompanyBody(a, t, company_name, country, address, authResp, getResp) ==
    IF CleanValue(company_name) = << >>
    THEN [auth |-> a, exc |-> Exc("ValueError", "Company name is required"),
          matches |-> << >>, posts |-> 0, gets |-> 0]
    ELSE LET h == GetAuthHeaders(a, t, authResp)
         IN IF h.exc # NoExc
            THEN [auth |-> h.auth, exc |-> h.exc, matches |-> << >>,
                  posts |-> h.posts, gets |-> 0]
            ELSE LET g == ClassifyGet(getResp)
                 IN [auth |-> h.auth, exc |-> g.exc, matches |-> g.matches,
                     posts |-> h.posts, gets |-> 1]

\* retry_if_exception_type(requests.exceptions.RequestException) with
\* stop_after_attempt(3): what the decorator does with an attempt's outcome.
RetryDecision(exc, attemptNumber) ==
    IF exc = NoExc THEN "return"
    ELSE IF ~IsRequestException(exc) THEN "raise"
    ELSE IF attemptNumber >= MaxAttempts THEN "raise_retry_error"
    ELSE "retry"

RECURSIVE Pow2(_)
Pow2(n) == IF n = 0 THEN 1 ELSE 2 * Pow2(n - 1)

Max(a, b) == IF a >= b THEN a ELSE b
Min(a, b) == IF a <= b THEN a ELSE b

\* wait_exponential(multiplier=1, min=4, max=10): seconds slept after the
\* given attempt.
WaitExponential(attemptNumber) ==
    Max(Max(0, WaitMin), Min(WaitMultiplier * Pow2(attemptNumber - 1), WaitMax))

-----------------------------------------------------------------------------
(* Legacy client (client.py): DIR_API.match_company *)

\* client.py carries its own textual copy of _extract_comprehensive_info.
DirExtractComprehensiveInfo(c) == ExtractComprehensiveInfo(c)

DirConvertCandidates(cands) ==
    [i \in 1..Len(cands) |-> DirExtractComprehensiveInfo(cands[i])]

\* The try block of DIR_API.match_company around session.get.
DirClassifyGet(resp) ==
    IF resp.kind # "http"
    THEN [exc |-> Exc("Exception", "Network error"), matches |-> << >>]
    ELSE IF ~RaisesForStatus(resp.status)
    THEN [exc |-> NoExc,
          matches |-> DirConvertCandidates(GetOr(resp.matchCandidates, << >>))]
    ELSE IF resp.status = 404 /\ resp.errorCode = "20505"
    THEN [exc |-> NoExc, matches |-> << >>]
    ELSE IF resp.status = 401
    THEN [exc |-> Exc("Exception", "Authentication failed. Check your API credentials."),
          matches |-> << >>]
    ELSE [exc |-> Exc("Exception", "API request failed"), matches |-> << >>]

\* DIR_API.match_company: _ensure_authenticated() comes first, then the
\* cleaning and the name check, then the GET.  No retry decorator.
DirMatchCompany(a, t, company_name, country, address, authResp, getResp) ==
    LET e == EnsureAuthenticated(a, t, authResp)
    IN IF e.exc # NoExc
       THEN [auth |-> e.auth, exc |-> e.exc, matches |-> << >>,
             posts |-> e.posts, gets |-> 0]
       ELSE IF CleanValue(company_name) = << >>
       THEN [auth |-> e.auth, exc |-> Exc("ValueError", "Company name is required"),
             matches |-> << >>, posts |-> e.posts, gets |-> 0]
       ELSE LET g == DirClassifyGet(getResp)
            IN [auth |-> e.auth, exc |-> g.exc, matches |-> g.matches,
                posts |-> e.posts, gets |-> 1]

-----------------------------------------------------------------------------
(* Data Processor (data_processor.py): snapshot files *)

AlnumChars == {"A", "B", "b", "7"}
Chars == AlnumChars \cup {" ", "-", "_", "/", "\\", ",", "."}

RECURSIVE FilterChars(_, _)
FilterChars(str, keep) ==
    IF str = << >> THEN << >>
    ELSE IF Head(str) \in keep
         THEN <<Head(str)>> \o FilterChars(Tail(str), keep)
         ELSE FilterChars(Tail(str), keep)

\* str.rstrip()
RECURSIVE RStrip(_)
RStrip(str) ==
    IF str = << >> THEN << >>
    ELSE IF str[Len(str)] = " " THEN RStrip(SubSeq(str, 1, Len(str) - 1))
    ELSE str

\* str.replace(old, new) for one-character old and new
ReplaceChar(str, old, new) ==
    [i \in 1..Len(str) |-> IF str[i] = old THEN new ELSE str[i]]

\* "".join(c for c in company_name if c.isalnum() or c in (' ', '-', '_')).rstrip()
SafeCompanyName(company_name) ==
    RStrip(FilterChars(company_name, AlnumChars \cup {" ", "-", "_"}))

DigitChars == <<"0", "1", "2", "3", "4", "5", "6", "7", "8", "9">>

\* str(index) for a non-negative index
RECURSIVE IndexStr(_)
IndexStr(n) ==
    IF n < 10 THEN <<DigitChars[n + 1]>>
    ELSE IndexStr(n \div 10) \o <<DigitChars[(n % 10) + 1]>>

JsonSuffix == <<".", "j", "s", "o", "n">>
ErrorSuffix == <<"_", "e", "r", "r", "o", "r">> \o JsonSuffix

\* f"{safe_company_name.replace('/', '_').replace('\\', '_')}_{index}.json"
SuccessFilename(company_name, index) ==
    ReplaceChar(ReplaceChar(SafeCompanyName(company_name), "/", "_"), "\\", "_")
        \o <<"_">> \o IndexStr(index) \o JsonSuffix

\* The error path without its _error mark.
ErrorFilename_NoSuffix(company_name, index) ==
    ReplaceChar(ReplaceChar(SafeCompanyName(company_name), "/", "_"), "\\", "_")
        \o <<"_">> \o IndexStr(index) \o JsonSuffix

\* f"{...}_{index}_error.json"
ErrorFilename(company_name, index) ==
    ReplaceChar(ReplaceChar(SafeCompanyName(company_name), "/", "_"), "\\", "_")
        \o <<"_">> \o IndexStr(index) \o ErrorSuffix

\* result_entry: the success envelope written for a row
ResultEntry(row, matches, t) ==
    [input_company_name |-> row.company_name, input_country |-> row.country,
     input_address |-> row.address, matches |-> Some(matches), error |-> None,
     timestamp |-> t]

\* error_entry: the error envelope written for a row ('error': str(e))
ErrorEntry(row, exc, t) ==
    [input_company_name |-> row.company_name, input_country |-> row.country,
     input_address |-> row.address, matches |-> None, error |-> Some(exc.msg),
     timestamp |-> t]

\* saved_files.append(filepath)
AppendPath_Front(saved, path) == <<path>> \o saved

AppendPath(saved, path) == Append(saved, path)

-----------------------------------------------------------------------------
(* Database Manager (database.py, models.py): populate_from_json_files *)

\* A database: the rows of each table in insertion order.  The five tables
\* that hang off a company (addresses, telephone_numbers, website_addresses,
\* trade_style_names, match_results) are kept in one list, each row naming
\* its table.  Every row records the populate call and the file that wrote
\* it, and whether the transaction that wrote it has committed.
EmptyDb == [companies |-> << >>, match_queries |-> << >>, children |-> << >>]

\* A session: the database as this session sees it (its own uncommitted rows
\* included) and the objects added but not yet flushed.
NewSession(database) == [db |-> database, pending |-> << >>]

\* What a file on disk holds: nothing that can be opened, text that is not
\* JSON, or a snapshot.
UnreadableFile == [readable |-> FALSE, json |-> None]
MalformedFile == [readable |-> TRUE, json |-> None]
SnapshotFile(entry) == [readable |-> TRUE, json |-> Some(entry)]

\* session.rollback(): the rows of the open transaction and the pending
\* objects are gone.
Rollback_Commits(s) ==
    [db |-> [t \in DOMAIN s.db |->
                [i \in 1..Len(s.db[t]) |-> [s.db[t][i] EXCEPT !.committed = TRUE]]],
     pending |-> << >>]

\* A rollback that takes back the companies only.
Rollback_CompaniesOnly(s) ==
    [db |-> [s.db EXCEPT !.companies = SelectSeq(@, LAMBDA r : r.committed)],
     pending |-> << >>]

Rollback(s) ==
    [db |-> [t \in DOMAIN s.db |-> SelectSeq(s.db[t], LAMBDA r : r.committed)],
     pending |-> << >>]

\* A flush (session.flush(), the autoflush before a query, the flush inside
\* commit) sends the pending objects as INSERTs.  A value that is not a
\* string cannot be bound to a String column: the flush raises.
Flush(s) ==
    IF \E i \in 1..Len(s.pending) : ~s.pending[i].bindable
    THEN [s |-> s, raised |-> TRUE]
    ELSE [s |-> [db |-> [s.db EXCEPT !.children = @ \o
                            [i \in 1..Len(s.pending) |->
                                [table |-> s.pending[i].table,
                                 company_id |-> s.pending[i].company_id,
                                 call |-> s.pending[i].call,
                                 file |-> s.pending[i].file,
                                 committed |-> FALSE]]],
                 pending |-> << >>],
          raised |-> FALSE]

\* session.add(match_query); session.flush()
AddMatchQuery(s, total, tag) ==
    LET f == Flush(s)
    IN IF f.raised THEN f
       ELSE [s |-> [f.s EXCEPT !.db.match_queries =
                        Append(@, [id |-> Len(@) + 1, total_matches |-> total,
                                   call |-> tag.call, file |-> tag.file,
                                   committed |-> FALSE])],
             raised |-> FALSE]

\* session.query(Company).filter_by(duns=duns).first(), after its autoflush
FindCompany(database, duns) ==
    LET hits == SelectSeq(database.companies, LAMBDA r : r.duns = duns)
    IN IF hits = << >> THEN None ELSE Some(hits[1])

\* The INSERT of a Company: duns is UNIQUE (models.py).
InsertCompany(database, match, tag) ==
    IF \E i \in 1..Len(database.companies) : database.companies[i].duns = match.duns
    THEN [db |-> database, id |-> 0, raised |-> TRUE]
    ELSE [db |-> [database EXCEPT !.companies =
                     Append(@, [id |-> Len(@) + 1,
                                duns |-> match.duns,
                                primary_name |-> match.primary_name,
                                operating_status_description |->
                                    match.operating_status.description,
                                operating_status_dnb_code |->
                                    match.operating_status.dnb_code,
                                call |-> tag.call, file |-> tag.file,
                                committed |-> FALSE])],
          id |-> Len(database.companies) + 1,
          raised |-> FALSE]

\* The lookup-or-insert of one candidate's company: [s, id, raised]
GetOrCreateCompany_AlwaysInsert(s, match, tag) ==
    LET f == Flush(s)
    IN IF f.raised THEN [s |-> s, id |-> 0, raised |-> TRUE]
       ELSE [s |-> [f.s EXCEPT !.db.companies =
                        Append(@, [id |-> Len(@) + 1,
                                   duns |-> match.duns,
                                   primary_name |-> match.primary_name,
                                   operating_status_description |->
                                       match.operating_status.description,
                                   operating_status_dnb_code |->
                                       match.operating_status.dnb_code,
                                   call |-> tag.call, file |-> tag.file,
                                   committed |-> FALSE])],
             id |-> Len(f.s.db.companies) + 1,
             raised |-> FALSE]

GetOrCreateCompany(s, match, tag) ==
    LET f == Flush(s)
    IN IF f.raised THEN [s |-> s, id |-> 0, raised |-> TRUE]
       ELSE LET company == FindCompany(f.s.db, match.duns)
            IN IF company # None
               THEN [s |-> f.s, id |-> company[1].id, raised |-> FALSE]
               ELSE LET ins == InsertCompany(f.s.db, match, tag)
                    IN [s |-> [f.s EXCEPT !.db = ins.db],
                        id |-> ins.id, raised |-> ins.raised]

\* An object handed to session.add() and not flushed yet.
Child(tableName, id, bindable, tag) ==
    [table |-> tableName, company_id |-> id, bindable |-> bindable,
     call |-> tag.call, file |-> tag.file]

\* The objects of a candidate without its Address.
ChildrenOf_NoAddress(match, id, tag) ==
    [i \in 1..Len(match.telephone) |-> Child("telephone_numbers", id, TRUE, tag)]
    \o [i \in 1..Len(match.website_address) |->
            Child("website_addresses", id, match.website_address[i].isString, tag)]
    \o [i \in 1..Len(match.trade_style_names) |-> Child("trade_style_names", id, TRUE, tag)]
    \o <<Child("match_results", id, TRUE, tag)>>

\* The objects added for one candidate once its company is known: an
\* Address, a TelephoneNumber per telephone entry, a WebsiteAddress per
\* website_address entry (the entry itself is the column value), a
\* TradeStyleName per trade style, a MatchResult.
ChildrenOf(match, id, tag) ==
    <<Child("addresses", id, TRUE, tag)>>
    \o [i \in 1..Len(match.telephone) |-> Child("telephone_numbers", id, TRUE, tag)]
    \o [i \in 1..Len(match.website_address) |->
            Child("website_addresses", id, match.website_address[i].isString, tag)]
    \o [i \in 1..Len(match.trade_style_names) |-> Child("trade_style_names", id, TRUE, tag)]
    \o <<Child("match_results", id, TRUE, tag)>>

\* The body of "for match in matches", from candidate i on: [s, raised]
RECURSIVE ProcessMatches(_, _, _, _)
ProcessMatches(s, matches, i, tag) ==
    IF i > Len(matches) THEN [s |-> s, raised |-> FALSE]
    ELSE LET c == GetOrCreateCompany(s, matches[i], tag)
         IN IF c.raised THEN [s |-> c.s, raised |-> TRUE]
            ELSE ProcessMatches([c.s EXCEPT !.pending = @ \o ChildrenOf(matches[i], c.id, tag)],
                                matches, i + 1, tag)

\* processed_count += 1, for an error snapshot and at the end of the try
\* block of a success snapshot.
CountFile_SkipErrorSnapshots(count, isErrorSnapshot) ==
    IF isErrorSnapshot THEN count ELSE count + 1

CountFile(count, isErrorSnapshot) == count + 1

\* The loop body without the test for an error snapshot.
ProcessFile_NoErrorCheck(s, count, file, tag) ==
    IF ~file.readable \/ file.json = None
    THEN [s |-> Rollback(s), count |-> count, raised |-> TRUE, wrote |-> FALSE]
    ELSE LET data == file.json[1]
             matches == GetOr(data.matches, << >>)
             q == AddMatchQuery(s, Len(matches), tag)
             m == IF q.raised THEN q ELSE ProcessMatches(q.s, matches, 1, tag)
         IN IF m.raised
            THEN [s |-> Rollback(m.s), count |-> count, raised |-> TRUE,
                  wrote |-> FALSE]
            ELSE [s |-> m.s, count |-> CountFile(count, FALSE),
                  raised |-> FALSE, wrote |-> TRUE]

\* One turn of "for json_file in json_files": [s, count, raised, wrote].
\* wrote: the file was processed to its end and rows were added for it.
ProcessFile(s, count, file, tag) ==
    IF ~file.readable \/ file.json = None
    THEN [s |-> Rollback(s), count |-> count, raised |-> TRUE, wrote |-> FALSE]
    ELSE LET data == file.json[1]
         IN IF data.error # None
            THEN [s |-> s, count |-> CountFile(count, TRUE), raised |-> FALSE,
                  wrote |-> FALSE]
            ELSE LET matches == GetOr(data.matches, << >>)
                     q == AddMatchQuery(s, Len(matches), tag)
                     m == IF q.raised THEN q ELSE ProcessMatches(q.s, matches, 1, tag)
                 IN IF m.raised
                    THEN [s |-> Rollback(m.s), count |-> count, raised |-> TRUE,
                          wrote |-> FALSE]
                    ELSE [s |-> m.s, count |-> CountFile(count, FALSE),
                          raised |-> FALSE, wrote |-> TRUE]

\* session.commit() and its handler: [s, raised].  The commit flushes what is
\* pending; it can also fail for reasons of the engine's own (storeOk).
Commit(s, storeOk) ==
    LET f == Flush(s)
    IN IF f.raised \/ ~storeOk
       THEN [s |-> Rollback(f.s), raised |-> TRUE]
       ELSE [s |-> [db |-> [t \in DOMAIN f.s.db |->
                              [i \in 1..Len(f.s.db[t]) |->
                                  [f.s.db[t][i] EXCEPT !.committed = TRUE]]],
                    pending |-> << >>],
             raised |-> FALSE]

\* The snapshot files the population is run on: an unreadable file, a file
\* that is not JSON, an error snapshot, and success snapshots of up to
\* MaxMatches candidates.
DbInputRow ==
    [company_name |-> <<"A", "b">>, country |-> <<"C", "N">>, address |-> << >>]

DbCandidates == {CandA, CandA2, CandC}

DbFiles ==
    {UnreadableFile, MalformedFile,
     SnapshotFile(ErrorEntry(DbInputRow, Exc("Exception", "Network error"), 0))}
    \cup {SnapshotFile(ResultEntry(DbInputRow, ConvertCandidates(cands), 0)) :
            cands \in DistinctSeqsUpTo(DbCandidates, MaxMatches)}

-----------------------------------------------------------------------------
(* SpecAuth: any sequence of token-freshness calls and clock advances *)

IdleCall == [op |-> "none", exc |-> NoExc, token |-> None, status |-> None]

\* The status of the answer to the token request of a call (0: no answer came),
\* if the call made one.
AnswerStatus(posts, resp) == IF posts = 1 THEN Some(resp.status) ELSE None

\* No DIR_API has been asked for a batch.
NoInstance == [id |-> 0, api_key |-> None, cache |-> NewAuth]

IdleAttempt == [row |-> 0, number |-> 0, posts |-> 0, gets |-> 0, params |-> None,
                exc |-> NoExc, decision |-> "none"]

\* No batch routine is running.
ProcIdle ==
    /\ mode = "none"
    /\ source = None
    /\ loadError = NoExc
    /\ instance = NoInstance
    /\ client = None
    /\ table = << >>
    /\ pos = 0
    /\ pc = "done"
    /\ attempt = 1
    /\ callPosts = 0
    /\ lastAttempt = IdleAttempt
    /\ getRequests = 0
    /\ saved_files = << >>
    /\ snapshots = << >>
    /\ results = << >>
    /\ log = << >>

\* No population has run: a database whose tables are empty.
NoPopulate == [status |-> "none", count |-> 0]

\* No token-freshness call has been made, no token is held.
AuthIdle ==
    /\ auth = NewAuth
    /\ dir = NewAuth
    /\ now = 0
    /\ tokenRequests = 0
    /\ calls = 0
    /\ clockSteps = 0
    /\ lastCall = IdleCall

\* No match_company call has been made.
NoRequest == [routine |-> "none", company_name |-> NaN, country |-> NaN, address |-> NaN]
NoOutcome ==
    [exc |-> NoExc, matches |-> << >>, attempts |-> 0, posts |-> 0, gets |-> 0,
     before |-> NoExc]

CallIdle ==
    /\ request = NoRequest
    /\ lastGet = None
    /\ outcome = NoOutcome
    /\ callsMade = 0

DbIdle ==
    /\ db = EmptyDb
    /\ pending = << >>
    /\ dbpc = "idle"
    /\ processed_count = 0
    /\ callNo = 0
    /\ filesDone = 0
    /\ fileLog = << >>
    /\ lastPopulate = NoPopulate
    /\ observed = {}
    /\ committedCalls = {}

InitAuth ==
    /\ auth = NewAuth
    /\ dir = NewAuth
    /\ now = 0
    /\ tokenRequests = 0
    /\ calls = 0
    /\ clockSteps = 0
    /\ lastCall = IdleCall
    /\ ProcIdle
    /\ DbIdle
    /\ CallIdle

CallGetValidToken ==
    /\ calls < MaxCalls
    /\ \E resp \in AuthResponses :
        LET r == GetValidToken(auth, now, resp)
        IN /\ auth' = r.auth
           /\ tokenRequests' = tokenRequests + r.posts
           /\ lastCall' = [op |-> "get_valid_token", exc |-> r.exc, token |-> r.token,
                           status |-> AnswerStatus(r.posts, resp)]
    /\ calls' = calls + 1
    /\ UNCHANGED <<dbVars, callVars, dir, now, clockSteps, procVars>>

CallGetAuthHeaders ==
    /\ calls < MaxCalls
    /\ \E resp \in AuthResponses :
        LET r == GetAuthHeaders(auth, now, resp)
        IN /\ auth' = r.auth
           /\ tokenRequests' = tokenRequests + r.posts
           /\ lastCall' = [op |-> "get_auth_headers", exc |-> r.exc,
                           token |-> r.headers.Authorization,
                           status |-> AnswerStatus(r.posts, resp)]
    /\ calls' = calls + 1
    /\ UNCHANGED <<dbVars, callVars, dir, now, clockSteps, procVars>>

CallEnsureAuthenticated ==
    /\ calls < MaxCalls
    /\ \E resp \in AuthResponses :
        LET r == EnsureAuthenticated(dir, now, resp)
        IN /\ dir' = r.auth
           /\ tokenRequests' = tokenRequests + r.posts
           /\ lastCall' = [op |-> "_ensure_authenticated", exc |-> r.exc,
                           token |-> IF r.exc = NoExc THEN r.auth.access_token ELSE None,
                           status |-> AnswerStatus(r.posts, resp)]
    /\ calls' = calls + 1
    /\ UNCHANGED <<dbVars, callVars, auth, now, clockSteps, procVars>>

\* Time passes between calls.
ClockAdvance ==
    /\ clockSteps < MaxClock
    /\ \E d \in {1, 5, DefaultExpiresIn} : now' = now + d
    /\ clockSteps' = clockSteps + 1
    /\ UNCHANGED <<dbVars, callVars, auth, dir, tokenRequests, calls, lastCall, procVars>>

NextAuth ==
    \/ CallGetValidToken
    \/ CallGetAuthHeaders
    \/ CallEnsureAuthenticated
    \/ ClockAdvance

SpecAuth == InitAuth /\ [][NextAuth]_vars

-----------------------------------------------------------------------------
(* Spec: a batch over a loaded table, by DataProcessor.request_matches or  *)
(* by the legacy match_companies_from_excel                                *)

CN == <<"C", "N">>
US == <<"U", "S">>

\* Rows as load_excel leaves them: three string columns.
Rows ==
    {[company_name |-> <<"A", "b">>, country |-> CN, address |-> <<"7", " ", "B">>],
     [company_name |-> <<"A", "/", "B", ",", " ">>, country |-> US, address |-> << >>],
     [company_name |-> << >>, country |-> US, address |-> << >>]}

Tables == SeqsUpTo(Rows, MaxRows)

\* column_mapping: the standard name of a header; a header that is not a key
\* keeps its name (DataFrame.rename).  The lookup is case-sensitive.  The four
\* Chinese keys are written by their code points.
ColumnMapping(h) ==
    CASE h \in {"name", "company_name", "companyname",
                "u4F01u4E1Au540Du79F0", "u4F01u4E1Au540D"} -> "company_name"
      [] h \in {"country", "countryISOAlpha2Code", "country_code", "countrycode",
                "u56FDu5BB6", "countrycountryISOAlpha2Code"} -> "country"
      [] h \in {"address", "streetAddressLine1", "street_address",
                "u5730u5740"} -> "address"
      [] OTHER -> h

\* df_input.rename(columns=column_mapping)
Rename(columns) == [i \in 1..Len(columns) |-> ColumnMapping(columns[i])]

\* col in df_input.columns
HasColumn(columns, col) == \E i \in 1..Len(columns) : columns[i] = col

RequiredColumns == <<"company_name", "country">>

\* A variant of the validation that requires company_name only.
MissingColumns_NameOnly(columns) ==
    SelectSeq(<<"company_name">>, LAMBDA col : ~HasColumn(columns, col))

\* The required columns that the renamed table lacks, in the order in which
\* the validation loop meets them.
MissingColumns(columns) ==
    SelectSeq(RequiredColumns, LAMBDA col : ~HasColumn(columns, col))

\* ValueError(f"Missing required column: {col}")
MissingColumnError(col) ==
    Exc("ValueError", CASE col = "company_name" -> "Missing required column: company_name"
                        [] col = "country" -> "Missing required column: country")

\* The cell of a row in the column of the given name.
Cell(columns, r, col) == r[CHOOSE i \in 1..Len(columns) : columns[i] = col]

\* A variant of the loader that leaves the country codes as they are.
ReplaceCH_Off(v) == v

\* .replace({'CH': 'CN'}) on a cell of the country column
ReplaceCH(v) == IF v = Str(<<"C", "H">>) THEN Str(CN) ELSE v

\* .fillna('').astype(str) on a cell
FillNaStr(v) == IF v.na THEN << >> ELSE v.text

\* One row of the loaded table: the address column defaults to '', CH is
\* rewritten to CN, and the three columns become strings.
LoadRow(columns, r) ==
    [company_name |-> FillNaStr(Cell(columns, r, "company_name")),
     country |-> FillNaStr(ReplaceCH(Cell(columns, r, "country"))),
     address |-> IF HasColumn(columns, "address")
                 THEN FillNaStr(Cell(columns, r, "address")) ELSE << >>]

\* load_excel, and the same statements at the head of
\* match_companies_from_excel: rename, validate, normalise.  df_input['country']
\* raises KeyError on a table without that column.
LoadExcel(frame) ==
    LET columns == Rename(frame.columns)
        missing == MissingColumns(columns)
    IN IF missing # << >>
       THEN [exc |-> MissingColumnError(missing[1]), table |-> << >>]
       ELSE IF ~HasColumn(columns, "country")
       THEN [exc |-> Exc("KeyError", "country"), table |-> << >>]
       ELSE [exc |-> NoExc,
             table |-> [i \in 1..Len(frame.data) |-> LoadRow(columns, frame.data[i])]]

\* A table as it is read: its headers and its rows of cells, one cell per
\* header.
Frame(columns, data) == [columns |-> columns, data |-> data]

\* Rows of three cells as a spreadsheet gives them: strings, and NaN for an
\* empty cell.
RawRows ==
    {<<Str(<<"A", "b">>), Str(<<"C", "H">>), Str(<<"7", " ", "B">>)>>,
     <<Str(<<"A", "/", "B", ",", " ">>), Str(US), NaN>>,
     <<NaN, Str(US), Str(<< >>)>>}

\* Rows of two cells, for tables of two columns.
ShortRows ==
    {<<Str(<<"A", "/", "B", ",", " ">>), Str(US)>>,
     <<NaN, Str(US)>>}

\* The tables handed to the loader: the standard headers; aliases without an
\* address column, English and Chinese; a header that differs from a key by
\* case only, so that company_name is missing; a table without a country
\* column; a table with neither.
Sources ==
    {Frame(<<"company_name", "country", "address">>, d) : d \in SeqsUpTo(RawRows, MaxRows)}
    \cup {Frame(<<"name", "countryISOAlpha2Code">>, d) : d \in SeqsUpTo(ShortRows, MaxRows)}
    \cup {Frame(<<"u4F01u4E1Au540Du79F0", "u56FDu5BB6">>, d) : d \in SeqsUpTo(ShortRows, MaxRows)}
    \cup {Frame(<<"Company_Name", "country", "address">>, d) : d \in SeqsUpTo(RawRows, MaxRows)}
    \cup {Frame(<<"company_name", "nation">>, d) : d \in SeqsUpTo(ShortRows, MaxRows)}
    \cup {Frame(<<"Name", "Country">>, d) : d \in SeqsUpTo(ShortRows, MaxRows)}

GetResponses == GetResponsesUpTo(MaxCandidates)

\* The token responses of a batch: a failure, or a token of default lifetime.
BatchAuthResponses ==
    {r \in AuthResponsesOf({"tokA"}, {None}) : r.status = 200 => r.access_token # None}

\* The token response is consumed only by an attempt that asks for a token.
AuthResponsesIf(needed) ==
    IF needed THEN BatchAuthResponses ELSE {CHOOSE r \in BatchAuthResponses : TRUE}

\* The match response is consumed only by an attempt that issues the GET.
GetResponsesIf(needed) ==
    IF needed THEN GetResponses ELSE {CHOOSE r \in GetResponses : TRUE}

Init ==
    /\ auth = NewAuth
    /\ dir = NewAuth
    /\ now = 0
    /\ tokenRequests = 0
    /\ calls = 0
    /\ clockSteps = 0
    /\ lastCall = IdleCall
    /\ mode \in {"request_matches", "match_companies_from_excel"}
    /\ source \in {Some(f) : f \in Sources}
    /\ loadError = NoExc
    /\ instance = NoInstance
    /\ client = None
    /\ table = << >>
    /\ pos = 0
    /\ pc = "load"
    /\ attempt = 1
    /\ callPosts = 0
    /\ lastAttempt = IdleAttempt
    /\ getRequests = 0
    /\ saved_files = << >>
    /\ snapshots = << >>
    /\ results = << >>
    /\ log = << >>
    /\ DbIdle
    /\ CallIdle

\* The table is loaded: by load_excel before request_matches is called with
\* its result, or by the head of match_companies_from_excel.  When loading
\* raises, the routine ends there; otherwise the loop over the rows follows
\* (the legacy routine builds its client first, which sends nothing).
LoadTable ==
    /\ pc = "load"
    /\ LET r == LoadExcel(source[1])
       IN /\ loadError' = r.exc
          /\ table' = r.table
          /\ source' = IF r.exc = NoExc THEN None ELSE source
          /\ pc' = IF r.exc # NoExc THEN "failed"
                   ELSE IF r.table = << >> THEN "done" ELSE "row"
    /\ UNCHANGED <<authVars, dbVars, callVars, mode, instance, client, pos, attempt,
                   callPosts, lastAttempt, getRequests, saved_files, snapshots,
                   results, log>>

\* The candidates of the provider's answer to a call that returned a list
\* (none when the call raised or the answer carried none).
AnsweredCandidates(r, getResp) ==
    IF r.exc = NoExc /\ r.gets = 1 THEN GetOr(getResp.matchCandidates, << >>) ELSE << >>

\* The DataFrame index label of the row at position p (a RangeIndex).
RowIndex(p) == p - 1

\* The rest of the loop body of request_matches once match_company returned
\* or raised: build the envelope, write it, append the path.
FinishRow(row, r, decision, getResp) ==
    LET index == RowIndex(pos + 1)
        failed == decision # "return"
        exc == IF decision = "raise_retry_error"
               THEN Exc("RetryError", "RetryError") ELSE r.exc
        path == IF failed THEN ErrorFilename(row.company_name, index)
                ELSE SuccessFilename(row.company_name, index)
        entry == IF failed THEN ErrorEntry(row, exc, now)
                 ELSE ResultEntry(row, r.matches, now)
    IN /\ saved_files' = AppendPath(saved_files, path)
       /\ snapshots' = Append(snapshots, <<path, entry>>)
       /\ log' = Append(log, [returned |-> ~failed, exc |-> exc,
                              attempts |-> attempt,
                              posts |-> callPosts + r.posts,
                              candidates |-> AnsweredCandidates(r, getResp),
                              emitted |-> 1])
       /\ pos' = pos + 1
       /\ pc' = IF pos + 1 = Len(table) THEN "done" ELSE "row"
       /\ attempt' = 1
       /\ callPosts' = 0

\* request_matches, one attempt of self.matcher.match_company for the row at
\* hand and, unless the decorator retries, the rest of the loop body.
MatchAttempt ==
    /\ mode = "request_matches"
    /\ pc = "row"
    /\ LET row == table[pos + 1]
           named == CleanValue(Str(row.company_name)) # << >>
       IN \E authResp \in AuthResponsesIf(named /\ NeedsAuth(auth, now)) :
          \E getResp \in GetResponsesIf(named /\ GetAuthHeaders(auth, now, authResp).exc = NoExc) :
            LET r == MatchCompanyBody(auth, now, Str(row.company_name),
                                      Str(row.country), Str(row.address),
                                      authResp, getResp)
                decision == RetryDecision(r.exc, attempt)
            IN /\ auth' = r.auth
               /\ tokenRequests' = tokenRequests + r.posts
               /\ getRequests' = getRequests + r.gets
               /\ lastAttempt' = [row |-> pos + 1, number |-> attempt,
                                  posts |-> r.posts, gets |-> r.gets,
                                  params |-> IF r.gets = 1
                                             THEN Some(MatchParams(Str(row.company_name),
                                                                   Str(row.country),
                                                                   Str(row.address)))
                                             ELSE None,
                                  exc |-> r.exc, decision |-> decision]
               /\ IF decision = "retry"
                  THEN /\ pc' = "sleep"
                       /\ callPosts' = callPosts + r.posts
                       /\ UNCHANGED <<pos, attempt, saved_files, snapshots, log>>
                  ELSE FinishRow(row, r, decision, getResp)
    /\ UNCHANGED <<dbVars, callVars, dir, now, calls, clockSteps, lastCall, mode,
                   source, loadError, instance, client, table, results>>

\* The decorator's backoff: sleep, then the next attempt.
RetrySleep ==
    /\ pc = "sleep"
    /\ now' = now + WaitExponential(attempt)
    /\ attempt' = attempt + 1
    /\ pc' = "row"
    /\ UNCHANGED <<dbVars, callVars, auth, dir, tokenRequests, calls, clockSteps,
                   lastCall, mode, source, loadError, instance, client, table,
                   pos, callPosts, lastAttempt, getRequests, saved_files, snapshots,
                   results, log>>

\* Time passes between two rows: a pause of one default token lifetime, within
\* the first lifetime of the batch.
RowClockAdvance ==
    /\ pc = "row"
    /\ attempt = 1
    /\ now < DefaultExpiresIn
    /\ now' = now + DefaultExpiresIn
    /\ UNCHANGED <<dbVars, callVars, auth, dir, tokenRequests, calls, clockSteps, lastCall, procVars>>

\* A variant of the output row whose match_number counts from zero.
MatchRow_ZeroBased(row, match, i, total) ==
    [input_company_name |-> row.company_name, input_country |-> row.country,
     input_address |-> row.address,
     matched_duns |-> match.duns,
     matched_primary_name |-> match.primary_name,
     match_confidence_code |-> match.match_quality.confidence_code,
     match_grade |-> match.match_quality.match_grade,
     operating_status |-> match.operating_status.description,
     country_name |-> match.address.country.name,
     region_name |-> match.address.region.name,
     postal_code |-> match.address.postal_code,
     street_address |-> match.address.street.line1,
     match_number |-> i - 1, total_matches |-> total,
     full_response |-> [json |-> Some(match), text |-> ""]]

\* One output row of match_companies_from_excel per match.
MatchRow(row, match, i, total) ==
    [input_company_name |-> row.company_name, input_country |-> row.country,
     input_address |-> row.address,
     matched_duns |-> match.duns,
     matched_primary_name |-> match.primary_name,
     match_confidence_code |-> match.match_quality.confidence_code,
     match_grade |-> match.match_quality.match_grade,
     operating_status |-> match.operating_status.description,
     country_name |-> match.address.country.name,
     region_name |-> match.address.region.name,
     postal_code |-> match.address.postal_code,
     street_address |-> match.address.street.line1,
     match_number |-> i, total_matches |-> total,
     full_response |-> [json |-> Some(match), text |-> ""]]

\* A variant of the placeholder row that leaves full_response empty.
PlaceholderRow_NoText(row, duns, text) ==
    [input_company_name |-> row.company_name, input_country |-> row.country,
     input_address |-> row.address,
     matched_duns |-> duns, matched_primary_name |-> "",
     match_confidence_code |-> 0, match_grade |-> "", operating_status |-> "",
     country_name |-> "", region_name |-> "", postal_code |-> "",
     street_address |-> "", match_number |-> 0, total_matches |-> 0,
     full_response |-> [json |-> None, text |-> ""]]

\* The single row emitted when nothing matched or when matching raised.
PlaceholderRow(row, duns, text) ==
    [input_company_name |-> row.company_name, input_country |-> row.country,
     input_address |-> row.address,
     matched_duns |-> duns, matched_primary_name |-> "",
     match_confidence_code |-> 0, match_grade |-> "", operating_status |-> "",
     country_name |-> "", region_name |-> "", postal_code |-> "",
     street_address |-> "", match_number |-> 0, total_matches |-> 0,
     full_response |-> [json |-> None, text |-> text]]

\* A variant of the loop body that appends nothing when nothing matched.
OutputRowsFor_SkipEmpty(row, r) ==
    IF r.exc # NoExc
    THEN <<PlaceholderRow(row, "ERROR", r.exc.msg)>>
    ELSE [i \in 1..Len(r.matches) |-> MatchRow(row, r.matches[i], i, Len(r.matches))]

\* The rows the loop body of match_companies_from_excel appends for one
\* input row, given what client.match_company did.
OutputRowsFor(row, r) ==
    IF r.exc # NoExc
    THEN <<PlaceholderRow(row, "ERROR", r.exc.msg)>>
    ELSE IF r.matches = << >>
    THEN <<PlaceholderRow(row, "NO MATCH FOUND",
                          "No matches found for the given input criteria")>>
    ELSE [i \in 1..Len(r.matches) |-> MatchRow(row, r.matches[i], i, Len(r.matches))]

\* match_companies_from_excel: the loop body for the row at hand.
LegacyMatchRow ==
    /\ mode = "match_companies_from_excel"
    /\ pc = "row"
    /\ LET row == table[pos + 1]
       IN \E authResp \in AuthResponsesIf(NeedsAuth(dir, now)) :
          \E getResp \in GetResponsesIf(/\ CleanValue(Str(row.company_name)) # << >>
                                          /\ EnsureAuthenticated(dir, now, authResp).exc = NoExc) :
            LET r == DirMatchCompany(dir, now, Str(row.company_name),
                                     Str(row.country), Str(row.address),
                                     authResp, getResp)
                rows == OutputRowsFor(row, r)
            IN /\ dir' = r.auth
               /\ tokenRequests' = tokenRequests + r.posts
               /\ getRequests' = getRequests + r.gets
               /\ lastAttempt' = [row |-> pos + 1, number |-> 1,
                                  posts |-> r.posts, gets |-> r.gets,
                                  params |-> IF r.gets = 1
                                             THEN Some(MatchParams(Str(row.company_name),
                                                                   Str(row.country),
                                                                   Str(row.address)))
                                             ELSE None,
                                  exc |-> r.exc, decision |-> "none"]
               /\ results' = results \o rows
               /\ log' = Append(log, [returned |-> r.exc = NoExc, exc |-> r.exc,
                                      attempts |-> 1, posts |-> r.posts,
                                      candidates |-> AnsweredCandidates(r, getResp),
                                      emitted |-> Len(rows)])
    /\ pos' = pos + 1
    /\ pc' = IF pos + 1 = Len(table) THEN "done" ELSE "row"
    /\ UNCHANGED <<dbVars, callVars, auth, now, calls, clockSteps, lastCall, mode, source, loadError,
                   instance, client,
                   table, attempt,
                   callPosts, saved_files, snapshots>>

Next ==
    \/ LoadTable
    \/ MatchAttempt
    \/ RetrySleep
    \/ RowClockAdvance
    \/ LegacyMatchRow

Spec == Init /\ [][Next]_vars

-----------------------------------------------------------------------------
(* SpecRequest: DIR_API.request on a loaded table *)

\* DIR_API(api_key, api_secret, api_url): a credential that is not given is
\* read from the environment, and the constructor raises when there is none.
\* api_key stands for the key and the secret; the new object holds no token.
NewDirApi(id, given, envKey) ==
    LET key == IF given # None THEN given ELSE envKey
    IN IF key = None
       THEN [exc |-> Exc("ValueError", "API credentials not provided"), obj |-> NoInstance]
       ELSE [exc |-> NoExc, obj |-> [id |-> id, api_key |-> key, cache |-> NewAuth]]

\* DNB_API_KEY of the environment: not set, or set.
EnvKeys == {None, Some("keyE")}

\* The client that request is called on: built with its own credentials and
\* not yet authenticated, the same holding a token obtained at time 0, or
\* built from the environment.
RequestInstances ==
    {NewDirApi(1, Some("keyA"), None).obj,
     [NewDirApi(1, Some("keyA"), None).obj EXCEPT
         !.cache = [access_token |-> Some("tokA"),
                    token_expiry |-> Some(DefaultExpiresIn)]],
     NewDirApi(1, None, Some("keyE")).obj}

InitRequest ==
    /\ AuthIdle
    /\ mode = "request"
    /\ source = None
    /\ loadError = NoExc
    /\ instance \in RequestInstances
    /\ client = None
    /\ table \in Tables
    /\ pos = 0
    /\ pc = "start"
    /\ attempt = 1
    /\ callPosts = 0
    /\ lastAttempt = IdleAttempt
    /\ getRequests = 0
    /\ saved_files = << >>
    /\ snapshots = << >>
    /\ results = << >>
    /\ log = << >>
    /\ DbIdle
    /\ CallIdle

\* The head of request: client = DIR_API().  An instance that was built from
\* the environment finds the same environment again.
RequestStart ==
    /\ mode = "request"
    /\ pc = "start"
    /\ \E envKey \in {e \in EnvKeys : instance.api_key = Some("keyE") => e = instance.api_key} :
          LET c == NewDirApi(2, None, envKey)
          IN /\ loadError' = c.exc
             /\ client' = IF c.exc = NoExc THEN Some(c.obj) ELSE None
             /\ pc' = IF c.exc # NoExc THEN "failed"
                      ELSE IF table = << >> THEN "done" ELSE "row"
    /\ UNCHANGED <<authVars, dbVars, callVars, mode, source, instance, table, pos, attempt,
                   callPosts, lastAttempt, getRequests, saved_files, snapshots,
                   results, log>>

\* The loop body of request for the row at hand: client.match_company, then
\* the snapshot of what it returned or raised.
RequestRow ==
    /\ mode = "request"
    /\ pc = "row"
    /\ LET row == table[pos + 1]
           cache == client[1].cache
       IN \E authResp \in AuthResponsesIf(NeedsAuth(cache, now)) :
          \E getResp \in GetResponsesIf(/\ CleanValue(Str(row.company_name)) # << >>
                                          /\ EnsureAuthenticated(cache, now, authResp).exc = NoExc) :
            LET r == DirMatchCompany(cache, now, Str(row.company_name),
                                     Str(row.country), Str(row.address),
                                     authResp, getResp)
                decision == IF r.exc = NoExc THEN "return" ELSE "raise"
            IN /\ client' = Some([client[1] EXCEPT !.cache = r.auth])
               /\ tokenRequests' = tokenRequests + r.posts
               /\ getRequests' = getRequests + r.gets
               /\ lastAttempt' = [row |-> pos + 1, number |-> 1,
                                  posts |-> r.posts, gets |-> r.gets,
                                  params |-> IF r.gets = 1
                                             THEN Some(MatchParams(Str(row.company_name),
                                                                   Str(row.country),
                                                                   Str(row.address)))
                                             ELSE None,
                                  exc |-> r.exc, decision |-> decision]
               /\ FinishRow(row, r, decision, getResp)
    /\ UNCHANGED <<dbVars, callVars, auth, dir, now, calls, clockSteps, lastCall, mode,
                   source, loadError, instance, table, results>>

NextRequest ==
    \/ RequestStart
    \/ RequestRow
    \/ RowClockAdvance

SpecRequest == InitRequest /\ [][NextRequest]_vars

-----------------------------------------------------------------------------
(* SpecCall: match_company called directly, on the Matcher or on the legacy *)
(* client, with any arguments                                               *)

\* The arguments of a call: a name that is a string, the empty string or NaN,
\* a country that is a code or the empty string.
Requests ==
    [routine : {"Matcher", "DIR_API"},
     company_name : {Str(<<"A", "b">>), Str(<< >>), NaN},
     country : {Str(<<"C", "N">>), Str(<< >>)},
     address : {Str(<< >>)}]

InitCall ==
    /\ AuthIdle
    /\ mode = "match_company"
    /\ source = None
    /\ loadError = NoExc
    /\ instance = NoInstance
    /\ client = None
    /\ table = << >>
    /\ pos = 0
    /\ pc = "done"
    /\ attempt = 1
    /\ callPosts = 0
    /\ lastAttempt = IdleAttempt
    /\ getRequests = 0
    /\ saved_files = << >>
    /\ snapshots = << >>
    /\ results = << >>
    /\ log = << >>
    /\ DbIdle
    /\ CallIdle

\* A caller calls match_company.
BeginCall ==
    /\ mode = "match_company"
    /\ pc = "done"
    /\ callsMade < MaxMatchCalls
    /\ request' \in Requests
    /\ callsMade' = callsMade + 1
    /\ lastGet' = None
    /\ pc' = "row"
    /\ UNCHANGED <<outcome, authVars, dbVars, mode, source, loadError, instance, client,
                   table, pos,
                   attempt, callPosts,
                   lastAttempt, getRequests, saved_files, snapshots, results, log>>

\* One execution of the body of the called match_company and what follows it:
\* on the Matcher the retry decorator's decision, on the legacy client (which
\* has no decorator) the return or the raise.
CallAttempt ==
    /\ mode = "match_company"
    /\ pc = "row"
    /\ LET legacy == request.routine = "DIR_API"
           named == CleanValue(request.company_name) # << >>
           asks == IF legacy THEN NeedsAuth(dir, now) ELSE named /\ NeedsAuth(auth, now)
       IN \E authResp \in AuthResponsesIf(asks) :
          \E getResp \in GetResponsesIf(
                 /\ named
                 /\ IF legacy THEN EnsureAuthenticated(dir, now, authResp).exc = NoExc
                    ELSE GetAuthHeaders(auth, now, authResp).exc = NoExc) :
            LET r == IF legacy
                     THEN DirMatchCompany(dir, now, request.company_name, request.country,
                                          request.address, authResp, getResp)
                     ELSE MatchCompanyBody(auth, now, request.company_name, request.country,
                                           request.address, authResp, getResp)
                decision == IF ~legacy THEN RetryDecision(r.exc, attempt)
                            ELSE IF r.exc = NoExc THEN "return" ELSE "raise"
            IN /\ auth' = IF legacy THEN auth ELSE r.auth
               /\ dir' = IF legacy THEN r.auth ELSE dir
               /\ tokenRequests' = tokenRequests + r.posts
               /\ getRequests' = getRequests + r.gets
               /\ lastAttempt' = [row |-> 0, number |-> attempt,
                                  posts |-> r.posts, gets |-> r.gets,
                                  params |-> IF r.gets = 1
                                             THEN Some(MatchParams(request.company_name,
                                                                   request.country,
                                                                   request.address))
                                             ELSE None,
                                  exc |-> r.exc, decision |-> decision]
               /\ lastGet' = IF r.gets = 1 THEN Some(getResp) ELSE lastGet
               /\ IF decision = "retry"
                  THEN /\ pc' = "sleep"
                       /\ callPosts' = callPosts + r.posts
                       /\ UNCHANGED <<attempt, outcome>>
                  ELSE /\ pc' = "done"
                       /\ attempt' = 1
                       /\ callPosts' = 0
                       /\ outcome' = [exc |-> IF decision = "raise_retry_error"
                                              THEN Exc("RetryError", "RetryError")
                                              ELSE r.exc,
                                      matches |-> r.matches,
                                      attempts |-> attempt,
                                      posts |-> callPosts + r.posts,
                                      gets |-> r.gets,
                                      before |-> outcome.exc]
    /\ UNCHANGED <<request, callsMade, now, calls, clockSteps, lastCall, dbVars,
                   mode, source, loadError, instance, client, table, pos,
                   saved_files, snapshots,
                   results, log>>

NextCall ==
    \/ BeginCall
    \/ CallAttempt
    \/ RetrySleep
    \/ RowClockAdvance

SpecCall == InitCall /\ [][NextCall]_vars

-----------------------------------------------------------------------------
(* SpecDb: population calls over snapshot files, next to a concurrent reader *)

InitDb == AuthIdle /\ ProcIdle /\ DbIdle /\ CallIdle

\* What populate reads of each candidate for its Company row.
CompanyFieldsOf(matches) ==
    [i \in 1..Len(matches) |->
        [duns |-> matches[i].duns,
         primary_name |-> matches[i].primary_name,
         operating_status_description |-> matches[i].operating_status.description]]

\* populate_from_json_files is entered: a session is opened, the counter is 0.
StartPopulate ==
    /\ dbpc = "idle"
    /\ callNo < MaxPopulateCalls
    /\ dbpc' = "files"
    /\ callNo' = callNo + 1
    /\ processed_count' = 0
    /\ pending' = << >>
    /\ fileLog' = << >>
    /\ UNCHANGED <<db, filesDone, lastPopulate, observed, committedCalls,
                   authVars, procVars, callVars>>

\* One turn of the file loop, on the next file of the directory.
PopulateFile ==
    /\ dbpc = "files"
    /\ filesDone < MaxFiles
    /\ \E file \in DbFiles :
        LET tag == [call |-> callNo, file |-> Len(fileLog) + 1]
            r == ProcessFile([db |-> db, pending |-> pending], processed_count, file, tag)
        IN /\ db' = r.s.db
           /\ pending' = r.s.pending
           /\ processed_count' = r.count
           /\ fileLog' = Append(fileLog,
                  [raised |-> r.raised, wrote |-> r.wrote,
                   isError |-> file.json # None /\ file.json[1].error # None,
                   matches |-> IF r.wrote
                               THEN CompanyFieldsOf(GetOr(file.json[1].matches, << >>))
                               ELSE << >>])
    /\ filesDone' = filesDone + 1
    /\ UNCHANGED <<dbpc, callNo, lastPopulate, observed, committedCalls,
                   authVars, procVars, callVars>>

\* The loop is over: session.commit(), then return processed_count; or the
\* handler of a failed commit: session.rollback(), raise.
EndOfBatchCommit ==
    /\ dbpc = "files"
    /\ \E storeOk \in BOOLEAN :
        LET r == Commit([db |-> db, pending |-> pending], storeOk)
        IN /\ db' = r.s.db
           /\ pending' = r.s.pending
           /\ lastPopulate' = IF r.raised THEN [status |-> "raised", count |-> 0]
                              ELSE [status |-> "returned", count |-> processed_count]
           /\ committedCalls' = IF r.raised THEN committedCalls
                                ELSE committedCalls \cup {callNo}
    /\ dbpc' = "idle"
    /\ UNCHANGED <<processed_count, callNo, filesDone, fileLog, observed,
                   authVars, procVars, callVars>>

\* The calls whose rows another connection can read.
VisibleCalls(database) ==
    UNION {{database[t][i].call : i \in {j \in 1..Len(database[t]) : database[t][j].committed}} :
            t \in DOMAIN database}

\* A concurrent reader queries the database.
Reader ==
    /\ observed' = observed \cup VisibleCalls(db)
    /\ UNCHANGED <<db, pending, dbpc, processed_count, callNo, filesDone, fileLog,
                   lastPopulate, committedCalls, authVars, procVars, callVars>>

NextDb ==
    \/ StartPopulate
    \/ PopulateFile
    \/ EndOfBatchCommit
    \/ Reader

SpecDb == InitDb /\ [][NextDb]_vars

-----------------------------------------------------------------------------
(* Claims about single match_company calls (SpecCall) *)

\* A step of SpecCall that executes the body of the called match_company.
IsCallAttempt == mode = "match_company" /\ pc = "row" /\ pc' # "row"

\* Such a step in which the match GET was issued and answered over HTTP.
GetAnswered ==
    /\ IsCallAttempt
    /\ getRequests' = getRequests + 1
    /\ lastGet' # None
    /\ lastGet'[1].kind = "http"

CheckCredentials == "Authentication failed. Check your API credentials."

\* C11: Matcher.match_company with a name that is empty after cleaning ends
\* at its first attempt with ValueError('Company name is required'): no token
\* request, no GET, no retry, the token cache untouched.
C11_EmptyNameFailsWithoutRequest ==
    [][(/\ IsCallAttempt
        /\ request.routine = "Matcher"
        /\ CleanValue(request.company_name) = << >>)
       => (/\ tokenRequests' = tokenRequests
           /\ getRequests' = getRequests
           /\ auth' = auth
           /\ pc' = "done"
           /\ outcome'.exc = Exc("ValueError", "Company name is required")
           /\ outcome'.attempts = 1
           /\ outcome'.posts = 0 /\ outcome'.gets = 0)]_vars

\* The Matcher, holding no token, was called with a NaN name and raised.
C11_Witness ==
    /\ mode = "match_company" /\ pc = "done"
    /\ callsMade = 1
    /\ request.routine = "Matcher"
    /\ request.company_name = NaN
    /\ auth = NewAuth
    /\ outcome.exc.type = "ValueError"
    /\ tokenRequests = 0 /\ getRequests = 0

\* C12: match_company, of the Matcher or of the legacy client, issues no
\* token request and no match GET for a record whose country is empty after
\* cleaning.
C12_EmptyCountryIssuesNoRequest ==
    [][(/\ IsCallAttempt
        /\ CleanValue(request.country) = << >>)
       => (/\ tokenRequests' = tokenRequests
           /\ getRequests' = getRequests)]_vars

\* C13: a 404 answer to the match GET whose body carries error code "20505"
\* makes match_company return the empty list, on the Matcher and on the
\* legacy client.
C13_NoMatchCodeGivesEmptyList ==
    [][(/\ GetAnswered
        /\ lastGet'[1].status = 404
        /\ lastGet'[1].errorCode = "20505")
       => (/\ pc' = "done"
           /\ outcome'.exc = NoExc
           /\ outcome'.matches = << >>)]_vars

\* The Matcher's GET was answered 404 / 20505 and the call returned [].
C13_Witness ==
    /\ mode = "match_company" /\ pc = "done"
    /\ request.routine = "Matcher"
    /\ lastGet # None
    /\ lastGet[1].status = 404 /\ lastGet[1].errorCode = "20505"
    /\ outcome.exc = NoExc /\ outcome.matches = << >> /\ outcome.gets = 1

\* C14: an HTTP answer to the match GET whose status is outside 200..299, is
\* not 401 and is not a 404 with error code "20505" makes match_company
\* raise the "API request failed" error.
C14_OtherStatusIsApiRequestFailed ==
    [][(/\ GetAnswered
        /\ ~(lastGet'[1].status >= 200 /\ lastGet'[1].status <= 299)
        /\ lastGet'[1].status # 401
        /\ ~(lastGet'[1].status = 404 /\ lastGet'[1].errorCode = "20505"))
       => (/\ pc' = "done"
           /\ outcome'.exc = Exc("Exception", "API request failed"))]_vars

\* C15: a 401 answer to the Matcher's GET makes match_company raise the
\* error that tells the caller to check the API credentials, whatever the
\* body of the answer.
C15_Status401IsAuthenticationFailed ==
    [][(/\ GetAnswered
        /\ request.routine = "Matcher"
        /\ lastGet'[1].status = 401)
       => (/\ pc' = "done"
           /\ outcome'.exc = Exc("Exception", CheckCredentials))]_vars

\* The Matcher's GET was answered 401 with a body that carries error code
\* "20505", and the call raised the credentials error.
C15_Witness ==
    /\ mode = "match_company" /\ pc = "done"
    /\ request.routine = "Matcher"
    /\ lastGet # None
    /\ lastGet[1].status = 401 /\ lastGet[1].errorCode = "20505"
    /\ outcome.exc.msg = CheckCredentials
    /\ outcome.gets = 1

\* C16: a 401 answer to the Matcher's GET ends the call without a further
\* token request and leaves the token cache as get_auth_headers left it (as
\* it was, when the cached token was valid); and the Matcher's next call
\* after such an error, made while now < token_expiry, makes no token request
\* and leaves the cache as it is.
C16_Status401KeepsToken ==
    [][/\ (/\ GetAnswered
           /\ request.routine = "Matcher"
           /\ lastGet'[1].status = 401)
          => (/\ pc' = "done"
              /\ tokenRequests' = tokenRequests + (IF NeedsAuth(auth, now) THEN 1 ELSE 0)
              /\ ~NeedsAuth(auth, now) => auth' = auth
              /\ auth'.access_token # None)
       /\ (/\ IsCallAttempt
           /\ request.routine = "Matcher"
           /\ outcome.exc.msg = CheckCredentials
           /\ auth.access_token # None
           /\ now < auth.token_expiry[1])
          => (/\ tokenRequests' = tokenRequests
              /\ auth' = auth)]_vars

\* Two calls of the Matcher: the first exchanged the token and was answered
\* 401, the second issued its GET with the same token and returned.
C16_Witness ==
    /\ mode = "match_company" /\ pc = "done"
    /\ callsMade = 2
    /\ request.routine = "Matcher"
    /\ dir = NewAuth
    /\ outcome.before.msg = CheckCredentials
    /\ outcome.exc = NoExc /\ outcome.gets = 1
    /\ tokenRequests = 1 /\ getRequests = 2

\* C29: the legacy DIR_API.match_company, called with a name that is empty
\* after cleaning, raises ValueError('Company name is required') without a
\* token request and without a GET, whether or not a token is cached.
C29_LegacyEmptyNameIssuesNoRequest ==
    [][(/\ IsCallAttempt
        /\ request.routine = "DIR_API"
        /\ CleanValue(request.company_name) = << >>)
       => (/\ tokenRequests' = tokenRequests
           /\ getRequests' = getRequests
           /\ dir' = dir
           /\ outcome'.exc = Exc("ValueError", "Company name is required"))]_vars

\* What the legacy client does on an empty name while it holds a valid
\* token: it raises the ValueError and sends nothing.
C29_LegacyEmptyNameWithValidToken ==
    [][(/\ IsCallAttempt
        /\ request.routine = "DIR_API"
        /\ CleanValue(request.company_name) = << >>
        /\ ~NeedsAuth(dir, now))
       => (/\ tokenRequests' = tokenRequests
           /\ getRequests' = getRequests
           /\ dir' = dir
           /\ outcome'.exc = Exc("ValueError", "Company name is required"))]_vars

\* C26: in every record that match_company returns, the match_quality
\* sub-record holds match_grade_components, match_data_profile and
\* name_match_score next to confidence_code, match_grade and
\* match_grade_components_count.
C26_MatchQualityHoldsComponents ==
    \A i \in 1..Len(outcome.matches) :
        {"confidence_code", "match_grade", "match_grade_components_count",
         "match_grade_components", "match_data_profile", "name_match_score"}
            \subseteq DOMAIN outcome.matches[i].match_quality

\* Where the code puts them: the three fields of match_quality, and the three
\* others beside match_quality in the record itself.
C26_ComponentsBesideMatchQuality ==
    \A i \in 1..Len(outcome.matches) :
        /\ DOMAIN outcome.matches[i].match_quality
              = {"confidence_code", "match_grade", "match_grade_components_count"}
        /\ {"match_quality", "match_grade_components", "match_data_profile",
            "name_match_score"} \subseteq DOMAIN outcome.matches[i]

-----------------------------------------------------------------------------
(* Claims about DIR_API.request (SpecRequest) *)

\* C30: the match calls of request go through the instance the method was
\* called on - the same object, with its credentials and its token cache -
\* so that no token is asked for while that instance holds a valid one.
C30_RequestUsesItsOwnInstance ==
    mode = "request" =>
        /\ client # None =>
              /\ client[1].id = instance.id
              /\ client[1].api_key = instance.api_key
        /\ ~NeedsAuth(instance.cache, now) => tokenRequests = 0

\* What the code does: the batch runs through a second object, built from
\* the environment, that starts without a token; the instance the method was
\* called on is left as it was.
C30_RequestBuildsASecondClient ==
    (mode = "request" /\ client # None) =>
        /\ client[1].id # instance.id
        /\ client[1].api_key = Some("keyE")
        /\ instance \in RequestInstances
        /\ getRequests > 0 => tokenRequests > 0

-----------------------------------------------------------------------------
(* Claims about the population of the database (SpecDb) *)

RowsOfFile(rows, call, file) ==
    SelectSeq(rows, LAMBDA r : r.call = call /\ r.file = file /\ r.committed)

\* C2: when populate_from_json_files has returned, every file that was
\* processed to its end before a later file of the same call raised still
\* has its rows in the database: its MatchQuery and one MatchResult per
\* candidate.
C2_EarlierFilesSurviveLaterFailure ==
    (dbpc = "idle" /\ lastPopulate.status = "returned") =>
        \A i \in 1..Len(fileLog) : \A j \in (i + 1)..Len(fileLog) :
            (fileLog[i].wrote /\ fileLog[j].raised) =>
                /\ Len(RowsOfFile(db.match_queries, callNo, i)) = 1
                /\ Len(SelectSeq(RowsOfFile(db.children, callNo, i),
                                 LAMBDA r : r.table = "match_results"))
                      = Len(fileLog[i].matches)

\* C4: in every database state, committed or inside a transaction, no two
\* Company rows carry the same DUNS.
C4_OneCompanyPerDuns ==
    \A i, j \in 1..Len(db.companies) :
        i # j => db.companies[i].duns # db.companies[j].duns

\* The second call runs on a file of two candidates, the first of them with
\* the DUNS of a Company row that the first call committed, the second with
\* a new DUNS, after a file of that call raised.
C4_Witness ==
    /\ callNo = 2 /\ dbpc = "files"
    /\ Len(fileLog) = 2
    /\ fileLog[1].raised
    /\ fileLog[2].wrote /\ Len(fileLog[2].matches) = 2
    /\ Len(db.companies) = 2
    /\ db.companies[1].committed /\ db.companies[1].call = 1
    /\ db.companies[1].duns = fileLog[2].matches[1].duns
    /\ ~db.companies[2].committed

\* The candidates of the files counted as processed, in processing order.
RECURSIVE CountedCandidates(_)
CountedCandidates(fl) ==
    IF fl = << >> THEN << >>
    ELSE (IF fl[1].raised THEN << >> ELSE fl[1].matches) \o CountedCandidates(Tail(fl))

\* C5: a committed Company row never changes; and when
\* populate_from_json_files returns, the Company row of each DUNS is the row
\* that existed before the call or, if there was none, carries the
\* primary_name and operating status of the first candidate with that DUNS
\* among the files counted as processed.
C5_FirstSeenWins ==
    [][/\ \A i \in 1..Len(db.companies) :
            db.companies[i].committed =>
                /\ Len(db'.companies) >= i
                /\ db'.companies[i] = db.companies[i]
       /\ (dbpc = "files" /\ dbpc' = "idle" /\ lastPopulate'.status = "returned") =>
            \A i \in 1..Len(db'.companies) :
                LET row == db'.companies[i]
                    first == SelectSeq(CountedCandidates(fileLog),
                                       LAMBDA c : c.duns = row.duns)
                IN ~db.companies[i].committed =>
                      /\ first # << >>
                      /\ row.primary_name = first[1].primary_name
                      /\ row.operating_status_description =
                            first[1].operating_status_description]_vars

\* C6: the counter of populate_from_json_files, and the count it returns, is
\* the number of files of the call whose processing did not raise: error
\* snapshots count, files that raised do not.
C6_CountsFilesThatDidNotRaise ==
    LET notRaised == Cardinality({i \in 1..Len(fileLog) : ~fileLog[i].raised})
    IN /\ dbpc = "files" => processed_count = notRaised
       /\ (dbpc = "idle" /\ lastPopulate.status = "returned") =>
             lastPopulate.count = notRaised

\* A call of three files returned 2: a success snapshot, an error snapshot,
\* and a file that raised.
C6_Witness ==
    /\ dbpc = "idle" /\ lastPopulate.status = "returned"
    /\ lastPopulate.count = 2
    /\ Len(fileLog) = 3
    /\ fileLog[1].wrote
    /\ ~fileLog[2].raised /\ ~fileLog[2].wrote
    /\ fileLog[3].raised

AllRows(database) ==
    database.companies \o database.match_queries \o database.children

\* C9: a reader has seen rows of those calls only whose end-of-batch commit
\* succeeded, and no row is readable before that commit; a call whose commit
\* failed has raised and has left no row, readable or not.
C9_NothingVisibleBeforeCommit ==
    /\ observed \subseteq committedCalls
    /\ VisibleCalls(db) \subseteq committedCalls
    /\ dbpc = "files" => callNo \notin committedCalls
    /\ (dbpc = "idle" /\ lastPopulate.status = "raised") =>
          /\ callNo \notin committedCalls
          /\ \A i \in 1..Len(AllRows(db)) : AllRows(db)[i].call # callNo
    /\ (dbpc = "idle" /\ lastPopulate.status = "returned") =>
          callNo \in committedCalls

\* The second call wrote rows for two files and then failed to commit; the
\* reader has seen the rows of the first call.
C9_Witness ==
    /\ callNo = 2 /\ dbpc = "idle"
    /\ lastPopulate.status = "raised"
    /\ Len(fileLog) = 2 /\ fileLog[1].wrote /\ fileLog[2].wrote
    /\ observed = {1}
    /\ db.companies # << >>

\* A step of the file loop, and the log entry of the file it handled.
IsFileStep == dbpc = "files" /\ Len(fileLog') = Len(fileLog) + 1
HandledFile == fileLog'[Len(fileLog')]

\* C17: handling an error snapshot increases processed_count by one and adds
\* nothing to the session: no row of any table, no pending object.
C17_ErrorSnapshotCountedNoRows ==
    [][(IsFileStep /\ HandledFile.isError)
       => (/\ processed_count' = processed_count + 1
           /\ db' = db
           /\ pending' = pending
           /\ ~HandledFile.raised)]_vars

\* A call on a success snapshot and an error snapshot returned 2 and left the
\* one MatchQuery of the success snapshot.
C17_Witness ==
    /\ dbpc = "idle" /\ lastPopulate.status = "returned"
    /\ lastPopulate.count = 2
    /\ Len(fileLog) = 2
    /\ fileLog[1].wrote /\ fileLog[2].isError
    /\ Len(db.match_queries) = 1
    /\ Len(db.companies) >= 1

\* The rows of a child table linked to a company, flushed or still pending.
Linked(database, pend, tableName, id) ==
    Len(SelectSeq(database.children, LAMBDA r : r.table = tableName /\ r.company_id = id))
    + Len(SelectSeq(pend, LAMBDA r : r.table = tableName /\ r.company_id = id))

\* C18: when a success snapshot has been processed, every DUNS among its
\* candidates has a Company row, and that Company has one more Address and
\* one more MatchResult per candidate with its DUNS than before, whether the
\* Company existed or not; and when a call on one snapshot of one candidate
\* returns after an earlier call committed exactly such a snapshot of the
\* same DUNS, there is one Company of that DUNS, with two MatchResult rows.
C18_OneAddressAndResultPerCandidate ==
    [][/\ (IsFileStep /\ HandledFile.wrote) =>
            /\ \A j \in 1..Len(HandledFile.matches) :
                  \E i \in 1..Len(db'.companies) :
                      db'.companies[i].duns = HandledFile.matches[j].duns
            /\ \A i \in 1..Len(db'.companies) : \A t \in {"addresses", "match_results"} :
                  Linked(db', pending', t, db'.companies[i].id)
                    = Linked(db, pending, t, db'.companies[i].id)
                      + Cardinality({j \in 1..Len(HandledFile.matches) :
                                        HandledFile.matches[j].duns = db'.companies[i].duns})
       /\ (/\ dbpc = "files" /\ dbpc' = "idle"
           /\ lastPopulate'.status = "returned"
           /\ callNo = 2 /\ 1 \in committedCalls
           /\ Len(fileLog) = 1 /\ fileLog[1].wrote /\ Len(fileLog[1].matches) = 1
           /\ Len(SelectSeq(db.match_queries, LAMBDA q : q.call = 1)) = 1
           /\ SelectSeq(db.match_queries, LAMBDA q : q.call = 1)[1].total_matches = 1
           /\ \E i \in 1..Len(db.companies) :
                 /\ db.companies[i].call = 1
                 /\ db.companies[i].duns = fileLog[1].matches[1].duns) =>
            LET same == SelectSeq(db'.companies,
                                  LAMBDA c : c.duns = fileLog[1].matches[1].duns)
            IN /\ Len(same) = 1
               /\ Linked(db', pending', "match_results", same[1].id) = 2
               /\ Linked(db', pending', "addresses", same[1].id) = 2]_vars

\* Two calls, each on one snapshot of the same single candidate, have
\* returned: one Company, two MatchQuery rows, two MatchResult rows.
C18_Witness ==
    /\ dbpc = "idle" /\ lastPopulate.status = "returned"
    /\ callNo = 2 /\ committedCalls = {1, 2}
    /\ Len(fileLog) = 1 /\ fileLog[1].wrote /\ Len(fileLog[1].matches) = 1
    /\ Len(db.companies) = 1 /\ db.companies[1].call = 1
    /\ db.companies[1].duns = fileLog[1].matches[1].duns
    /\ Len(db.match_queries) = 2
    /\ Linked(db, pending, "match_results", db.companies[1].id) = 2

\* C19: when populate_from_json_files has returned, the MatchQuery rows of
\* this call are one per success snapshot counted, each with total_matches
\* equal to the number of the snapshot's matches; their number is the
\* returned count minus the number of error snapshots.
C19_OneMatchQueryPerCountedSnapshot ==
    (dbpc = "idle" /\ lastPopulate.status = "returned") =>
        LET mine == SelectSeq(db.match_queries, LAMBDA q : q.call = callNo)
            errors == Cardinality({i \in 1..Len(fileLog) : fileLog[i].isError})
        IN /\ Len(mine) = lastPopulate.count - errors
           /\ \A i \in 1..Len(fileLog) :
                 fileLog[i].wrote =>
                    \E k \in 1..Len(mine) :
                        /\ mine[k].file = i
                        /\ mine[k].total_matches = Len(fileLog[i].matches)

\* The rows of the five tables that hang off a company, flushed or pending.
ChildRows == db.children \o pending

\* C28: every Address, TelephoneNumber, WebsiteAddress, TradeStyleName and
\* MatchResult row has the id of exactly one Company row as its company_id,
\* in the session at every moment and hence in every committed state; and a
\* committed row refers to a committed Company.
C28_ChildrenReferToCompanies ==
    /\ \A k \in 1..Len(ChildRows) :
          Cardinality({i \in 1..Len(db.companies) :
                          db.companies[i].id = ChildRows[k].company_id}) = 1
    /\ \A k \in 1..Len(db.children) :
          db.children[k].committed =>
              \E i \in 1..Len(db.companies) :
                  /\ db.companies[i].id = db.children[k].company_id
                  /\ db.companies[i].committed

\* A call committed the rows of its second file after its first file had
\* been processed and a rollback had taken its rows back.
C28_Witness ==
    /\ dbpc = "idle" /\ lastPopulate.status = "returned"
    /\ callNo \in committedCalls
    /\ Len(fileLog) = 3
    /\ fileLog[1].wrote /\ fileLog[1].matches # << >>
    /\ fileLog[2].raised
    /\ fileLog[3].wrote /\ fileLog[3].matches # << >>
    /\ db.children # << >>
    /\ \A k \in 1..Len(db.children) : db.children[k].committed

-----------------------------------------------------------------------------
(* Claims about the token cache (SpecAuth) *)

\* C10: a call of get_valid_token, get_auth_headers or _ensure_authenticated
\* performs a token exchange exactly when no token is held or
\* now >= token_expiry; while a token is held and now < token_expiry the call
\* makes no token request, returns the cached token and leaves the cache as it
\* is.  Clock advances make no request.
C10_ExchangeExactlyWhenStale ==
    [][/\ calls' = calls => tokenRequests' = tokenRequests
       /\ calls' = calls + 1 =>
            LET legacy == lastCall'.op = "_ensure_authenticated"
                held == IF legacy THEN dir ELSE auth
                after == IF legacy THEN dir' ELSE auth'
                stale == \/ held.access_token = None
                         \/ now >= held.token_expiry[1]
            IN /\ stale => tokenRequests' = tokenRequests + 1
               /\ ~stale => /\ tokenRequests' = tokenRequests
                            /\ after = held
                            /\ lastCall'.exc = NoExc
                            /\ lastCall'.token = held.access_token]_vars

\* Three calls on the Authenticator around one clock advance of 5 seconds:
\* the token was exchanged twice and the last call, get_auth_headers, was
\* answered from the cache.
C10_Witness ==
    /\ calls = 3
    /\ tokenRequests = 2
    /\ clockSteps = 1 /\ now = 5
    /\ dir = NewAuth
    /\ auth.access_token # None
    /\ auth.token_expiry = Some(10)
    /\ lastCall.op = "get_auth_headers"
    /\ lastCall.exc = NoExc
    /\ lastCall.token = auth.access_token

\* The token cache a call works on, before and after the call.
HeldBefore == IF lastCall'.op = "_ensure_authenticated" THEN dir ELSE auth
HeldAfter == IF lastCall'.op = "_ensure_authenticated" THEN dir' ELSE auth'

\* C27: a token exchange that met a transport error or an answer outside 2xx
\* leaves access_token and token_expiry as they were before the call, so that
\* no valid token is held after it; and a call made while no valid token is
\* held attempts the exchange.
C27_FailedExchangeKeepsToken ==
    [][calls' = calls + 1 =>
          /\ (/\ lastCall'.status # None
              /\ ~(lastCall'.status[1] >= 200 /\ lastCall'.status[1] <= 299)) =>
                 /\ HeldAfter = HeldBefore
                 /\ NeedsAuth(HeldAfter, now')
          /\ NeedsAuth(HeldBefore, now) => tokenRequests' = tokenRequests + 1]_vars

\* The same for the exchanges that raised: a transport error, or a status of
\* 400..599.
C27_RaisingExchangeKeepsToken ==
    [][calls' = calls + 1 =>
          /\ lastCall'.exc # NoExc =>
                 /\ lastCall'.status # None
                 /\ HeldAfter = HeldBefore
                 /\ NeedsAuth(HeldAfter, now')
          /\ NeedsAuth(HeldBefore, now) => tokenRequests' = tokenRequests + 1]_vars

-----------------------------------------------------------------------------
(* Claims about the match call and the batch routines (Spec) *)

EndsWith(str, suffix) ==
    /\ Len(str) >= Len(suffix)
    /\ SubSeq(str, Len(str) - Len(suffix) + 1, Len(str)) = suffix

\* C1: with a valid cached token, a transport-level failure of the match GET
\* on an attempt before the third leads to a further attempt of the call
\* (so that two failures followed by a success return the third answer).
C1_TransportFailureIsRetried ==
    [][(/\ mode = "request_matches"
        /\ pc = "row"
        /\ attempt < MaxAttempts
        /\ ~(auth.access_token = None)
        /\ getRequests' = getRequests + 1
        /\ tokenRequests' = tokenRequests
        /\ lastAttempt'.exc.msg = "Network error")
       => pc' = "sleep"]_vars

\* C3: when the token exchange is answered with a non-2xx status during
\* match_company, the call fails there and then, having issued exactly one
\* token request.
C3_AuthFailureNotRetried ==
    [][(/\ mode = "request_matches"
        /\ pc = "row"
        /\ tokenRequests' = tokenRequests + 1
        /\ lastAttempt'.exc.type = "HTTPError")
       => (/\ pos' = pos + 1
           /\ ~log'[pos'].returned
           /\ log'[pos'].posts = 1)]_vars

RECURSIVE EmittedBefore(_)
EmittedBefore(i) == IF i <= 1 THEN 0 ELSE EmittedBefore(i - 1) + log[i - 1].emitted

\* C8: the i-th path of request_matches is the snapshot of the i-th input
\* row, the i-th group of output rows of match_companies_from_excel belongs
\* to the i-th input row, and the matches of a row come in the order of the
\* provider's matchCandidates.
C8_OutputFollowsInputOrder ==
    /\ mode = "request_matches" =>
          /\ Len(saved_files) = Len(log) /\ Len(snapshots) = Len(log)
          /\ \A i \in 1..Len(log) :
                LET entry == snapshots[i][2]
                IN /\ snapshots[i][1] = saved_files[i]
                   /\ \/ EndsWith(saved_files[i], <<"_">> \o IndexStr(i - 1) \o JsonSuffix)
                      \/ EndsWith(saved_files[i], <<"_">> \o IndexStr(i - 1) \o ErrorSuffix)
                   /\ entry.input_company_name = table[i].company_name
                   /\ entry.input_country = table[i].country
                   /\ entry.input_address = table[i].address
                   /\ log[i].returned =>
                         /\ entry.matches # None
                         /\ Len(entry.matches[1]) = Len(log[i].candidates)
                         /\ \A j \in 1..Len(log[i].candidates) :
                               entry.matches[1][j].duns = GetOr(log[i].candidates[j].duns, "")
    /\ mode = "match_companies_from_excel" =>
          /\ Len(results) = EmittedBefore(Len(log) + 1)
          /\ \A i \in 1..Len(log) :
                /\ log[i].emitted >= 1
                /\ \A j \in 1..log[i].emitted :
                      LET out == results[EmittedBefore(i) + j]
                      IN /\ out.input_company_name = table[i].company_name
                         /\ out.input_country = table[i].country
                         /\ out.input_address = table[i].address
                         /\ log[i].candidates # << >> =>
                               /\ log[i].emitted = Len(log[i].candidates)
                               /\ out.matched_duns = GetOr(log[i].candidates[j].duns, "")

\* Two different rows were processed and the second one got two candidates.
C8_Witness ==
    /\ pc = "done"
    /\ Len(table) = 2
    /\ table[1] # table[2]
    /\ Len(log) = 2
    /\ log[1].returned /\ Len(log[1].candidates) = 1
    /\ log[2].returned /\ Len(log[2].candidates) = 2
    /\ mode = "request_matches"

\* The table at hand lacks the named column after the header remapping.
Lacks(col) ==
    \A i \in 1..Len(source[1].columns) : ColumnMapping(source[1].columns[i]) # col

\* C20: loading a table that lacks company_name or country after the header
\* remapping raises ValueError("Missing required column: <the first one
\* missing>"), no token request and no match request has been issued when it
\* raises, and nothing follows the failure.
C20_MissingColumnFailsWithoutRequest ==
    [][/\ (pc = "load" /\ (Lacks("company_name") \/ Lacks("country"))) =>
            /\ pc' = "failed"
            /\ loadError' = Exc("ValueError",
                                IF Lacks("company_name")
                                THEN "Missing required column: company_name"
                                ELSE "Missing required column: country")
            /\ table' = << >>
            /\ tokenRequests' = 0
            /\ getRequests' = 0
       /\ pc # "failed"]_vars

\* match_companies_from_excel was given a table of two rows without a country
\* column and has failed.
C20_Witness ==
    /\ mode = "match_companies_from_excel"
    /\ pc = "failed"
    /\ source # None
    /\ Len(source[1].data) = 2
    /\ loadError.msg = "Missing required column: country"
    /\ tokenRequests = 0 /\ getRequests = 0

\* The cell of the given row of the table at hand in the column that the
\* header remapping names country.
RawCountry(i) ==
    LET f == source[1]
    IN f.data[i][CHOOSE k \in 1..Len(f.columns) : ColumnMapping(f.columns[k]) = "country"]

\* C21: a row whose country cell is the string CH is loaded with country CN
\* and every other country string is loaded as it is (an empty cell as '');
\* the country of the loaded row is the countryISOAlpha2Code of every match
\* GET issued for the row, and the input_country recorded for the row in the
\* snapshot or in the output rows.
C21_CountryCHIsMatchedAsCN ==
    [][/\ (pc = "load" /\ pc' # "failed") =>
            /\ Len(table') = Len(source[1].data)
            /\ \A i \in 1..Len(table') :
                  table'[i].country =
                     IF RawCountry(i) = Str(<<"C", "H">>) THEN <<"C", "N">>
                     ELSE IF RawCountry(i).na THEN << >> ELSE RawCountry(i).text
       /\ (pc = "row" /\ mode # "match_company" /\ getRequests' = getRequests + 1) =>
            /\ lastAttempt'.params # None
            /\ lastAttempt'.params[1].countryISOAlpha2Code = table[pos + 1].country
       /\ (pc = "row" /\ mode = "request_matches" /\ pos' = pos + 1) =>
            snapshots'[pos'][2].input_country = table[pos'].country
       /\ (pc = "row" /\ mode = "match_companies_from_excel" /\ pos' = pos + 1) =>
            /\ Len(results') > Len(results)
            /\ \A j \in (Len(results) + 1)..Len(results') :
                  results'[j].input_country = table[pos + 1].country]_vars

\* The first row of the table was read with country CH (the only rows loaded
\* with CN): its match GET went out for CN, in Chinese, and its snapshot
\* records CN.
C21_Witness ==
    /\ mode = "request_matches"
    /\ pc = "done"
    /\ Len(table) = 1
    /\ table[1].country = <<"C", "N">>
    /\ lastAttempt.row = 1
    /\ lastAttempt.params # None
    /\ lastAttempt.params[1].countryISOAlpha2Code = <<"C", "N">>
    /\ lastAttempt.params[1].inLanguage = "zh-hans-CN"
    /\ snapshots[1][2].input_country = <<"C", "N">>

\* The number of occurrences of a character in a string.
Occurrences(str, ch) == Cardinality({k \in 1..Len(str) : str[k] = ch})

\* The name of the i-th file of request_matches without its _<index>.json or
\* _<index>_error.json ending.
FileStem(i) ==
    LET ending == <<"_">> \o IndexStr(i - 1)
                     \o (IF log[i].returned THEN JsonSuffix ELSE ErrorSuffix)
    IN SubSeq(saved_files[i], 1, Len(saved_files[i]) - Len(ending))

\* C22: before its _<index> ending, the name of the file of a row holds only
\* alphanumerics, spaces, hyphens and underscores, and it holds an underscore
\* for every '/' and every '\' of the company name (next to the underscores
\* the company name has itself).
C22_SlashesBecomeUnderscores ==
    mode = "request_matches" =>
        \A i \in 1..Len(saved_files) :
            /\ \A k \in 1..Len(FileStem(i)) :
                  FileStem(i)[k] \in AlnumChars \cup {" ", "-", "_"}
            /\ Occurrences(FileStem(i), "_")
                  = Occurrences(table[i].company_name, "_")
                    + Occurrences(table[i].company_name, "/")
                    + Occurrences(table[i].company_name, "\\")

\* The first half of C22 alone: only alphanumerics, spaces, hyphens and
\* underscores before the ending.
C22_OnlySafeCharacters ==
    mode = "request_matches" =>
        \A i \in 1..Len(saved_files) : \A k \in 1..Len(FileStem(i)) :
            FileStem(i)[k] \in AlnumChars \cup {" ", "-", "_"}

\* A step of the loop of match_companies_from_excel that finishes a row, and
\* the output rows it appended.
IsLegacyRowStep == mode = "match_companies_from_excel" /\ pc = "row" /\ pos' = pos + 1
NewRows == SubSeq(results', Len(results) + 1, Len(results'))

\* C23: a row for which match_company returned no candidate gives exactly one
\* output row, with matched_duns "NO MATCH FOUND", match_number 0 and
\* total_matches 0.
C23_NoMatchGivesOnePlaceholderRow ==
    [][(IsLegacyRowStep /\ log'[pos'].returned /\ log'[pos'].candidates = << >>) =>
          /\ Len(NewRows) = 1
          /\ NewRows[1].matched_duns = "NO MATCH FOUND"
          /\ NewRows[1].match_number = 0
          /\ NewRows[1].total_matches = 0
          /\ NewRows[1].input_company_name = table[pos'].company_name]_vars

\* The match GET of the only row was answered without candidates and the
\* routine ended with the one "NO MATCH FOUND" row.
C23_Witness ==
    /\ mode = "match_companies_from_excel"
    /\ pc = "done"
    /\ Len(table) = 1
    /\ getRequests = 1
    /\ log[1].returned /\ log[1].candidates = << >>
    /\ Len(results) = 1
    /\ results[1].matched_duns = "NO MATCH FOUND"

\* C24: a row for which match_company raised gives exactly one output row,
\* with matched_duns "ERROR" and the exception's message as full_response,
\* and the loop goes on to the next row when there is one.
C24_ErrorGivesOneErrorRow ==
    [][(IsLegacyRowStep /\ ~log'[pos'].returned) =>
          /\ Len(NewRows) = 1
          /\ NewRows[1].matched_duns = "ERROR"
          /\ NewRows[1].full_response = [json |-> None, text |-> log'[pos'].exc.msg]
          /\ log'[pos'].exc # NoExc
          /\ NewRows[1].match_number = 0
          /\ NewRows[1].total_matches = 0
          /\ pc' = IF pos' < Len(table) THEN "row" ELSE "done"]_vars

\* The first of two rows failed, the second was matched after it.
C24_Witness ==
    /\ mode = "match_companies_from_excel"
    /\ pc = "done"
    /\ Len(table) = 2
    /\ ~log[1].returned
    /\ results[1].matched_duns = "ERROR"
    /\ results[1].full_response.text = log[1].exc.msg
    /\ log[2].returned /\ Len(log[2].candidates) = 2
    /\ Len(results) = 3

\* C25: a row for which match_company returned k >= 1 candidates gives
\* exactly k output rows, the j-th of them for the j-th candidate of the
\* provider's answer, with match_number j and total_matches k.
C25_OneNumberedRowPerCandidate ==
    [][(IsLegacyRowStep /\ log'[pos'].returned /\ log'[pos'].candidates # << >>) =>
          LET k == Len(log'[pos'].candidates)
          IN /\ Len(NewRows) = k
             /\ \A j \in 1..k :
                   /\ NewRows[j].match_number = j
                   /\ NewRows[j].total_matches = k
                   /\ NewRows[j].matched_duns = GetOr(log'[pos'].candidates[j].duns, "")
                   /\ NewRows[j].full_response.json # None]_vars

\* A row got two candidates of different DUNS and two output rows.
C25_Witness ==
    /\ mode = "match_companies_from_excel"
    /\ pc = "done"
    /\ Len(table) = 1
    /\ log[1].returned /\ Len(log[1].candidates) = 2
    /\ Len(results) = 2
    /\ results[1].match_number = 1 /\ results[2].match_number = 2
    /\ results[1].matched_duns # results[2].matched_duns

====
